---- MODULE Spec2Model ----
(***************************************************************************)
(* Model of the command validator of mcp-secure-shell                      *)
(* (src/src/command-validator.ts, with the configuration holder of         *)
(* src/src/config/config-loader.ts).                                       *)
(*                                                                         *)
(* A string is a sequence of lexical units.  A unit is either one special  *)
(* character (a blank, a quote, a shell operator, $, >) or a run of        *)
(* ordinary characters (a word such as "ls" or "-exec").  Two adjacent     *)
(* word units spell the concatenated word, which is the name of no rule.   *)
(* Every function below works unit by unit exactly as the source works     *)
(* character by character.                                                 *)
(***************************************************************************)
EXTENDS Naturals, Sequences, FiniteSets, TLC

VARIABLES currentConfig, commandString, called, result

vars == <<currentConfig, commandString, called, result>>

-----------------------------------------------------------------------------
(* Characters *)

Space == " "
DoubleQuote == "\""
SingleQuote == "'"
Dollar == "$"
Greater == ">"
\* the unit standing for the backquote character
Backquote == "<backquote>"
QuoteChars == {DoubleQuote, SingleQuote}

\* the characters matched by SHELL_OPERATORS_REGEX
OperatorChars == {";", "|", "&", "(", ")", "{", "}"}

IsSpace(c) == c = Space

\* the largest placeholder index a text of the model can spell
MaxIndex == 3

MinOf(S) == CHOOSE i \in S : \A j \in S : i <= j

-----------------------------------------------------------------------------
(* String primitives of the JavaScript runtime, as the source uses them *)

RECURSIVE TrimStart(_)
TrimStart(s) == IF s # <<>> /\ IsSpace(Head(s)) THEN TrimStart(Tail(s)) ELSE s

RECURSIVE TrimEnd(_)
TrimEnd(s) ==
  IF s # <<>> /\ IsSpace(s[Len(s)]) THEN TrimEnd(SubSeq(s, 1, Len(s) - 1)) ELSE s

\* String.prototype.trim
Trim(s) == TrimEnd(TrimStart(s))

\* s.split(/\s+/): the pieces between maximal runs of blanks
RECURSIVE SplitWhitespaceFrom(_, _, _)
SplitWhitespaceFrom(s, i, cur) ==
  IF i > Len(s) THEN <<cur>>
  ELSE IF IsSpace(s[i])
       THEN IF i > 1 /\ IsSpace(s[i - 1])
            THEN SplitWhitespaceFrom(s, i + 1, cur)
            ELSE <<cur>> \o SplitWhitespaceFrom(s, i + 1, <<>>)
       ELSE SplitWhitespaceFrom(s, i + 1, Append(cur, s[i]))

SplitWhitespace(s) == SplitWhitespaceFrom(s, 1, <<>>)

\* s.indexOf(pat) + 1 (0 when pat does not occur)
IndexOf(s, pat) ==
  LET occ == {i \in 1..(Len(s) + 1 - Len(pat)) : SubSeq(s, i, i + Len(pat) - 1) = pat}
  IN IF Len(pat) > Len(s) \/ occ = {} THEN 0 ELSE MinOf(occ)

\* s.includes(pat)
Includes(s, pat) == IndexOf(s, pat) # 0

\* the replacement patterns String.prototype.replace expands in a replacement
\* string: $$ (a dollar), $& (the match), $ backquote (the text before) and
\* $ quote (the text after)
RECURSIVE ExpandReplacement(_, _, _, _)
ExpandReplacement(repl, matched, before, after) ==
  IF repl = <<>> THEN <<>>
  ELSE IF Head(repl) = Dollar /\ Len(repl) >= 2 /\ repl[2] \in {Dollar, "&", Backquote, SingleQuote}
       THEN LET rest == ExpandReplacement(SubSeq(repl, 3, Len(repl)), matched, before, after)
            IN CASE repl[2] = Dollar -> <<Dollar>> \o rest
                 [] repl[2] = "&" -> matched \o rest
                 [] repl[2] = Backquote -> before \o rest
                 [] OTHER -> after \o rest
       ELSE <<Head(repl)>> \o ExpandReplacement(Tail(repl), matched, before, after)

\* s.replace(pat, repl) with a string pattern: the first occurrence only
StringReplace(s, pat, repl) ==
  LET i == IndexOf(s, pat)
  IN IF i = 0 THEN s
     ELSE LET before == SubSeq(s, 1, i - 1)
              after == SubSeq(s, i + Len(pat), Len(s))
          IN before \o ExpandReplacement(repl, pat, before, after) \o after

\* the placeholder texts __QUOTEk__ and __SUBSTk__
QuotePlaceholder(k) == "__QUOTE" \o ToString(k) \o "__"
SubstPlaceholder(k) == "__SUBST" \o ToString(k) \o "__"

-----------------------------------------------------------------------------
(* Redirection guard *)

\* the lookahead [^"']*["']\s*$ of OUTPUT_REDIRECTION_REGEX, tried at position q:
\* the rest of the text holds exactly one quote, followed only by blanks
TrailingQuoteAhead(s, q) ==
  \E r \in q..Len(s) :
     /\ s[r] \in QuoteChars
     /\ \A k \in q..(r - 1) : s[k] \notin QuoteChars
     /\ \A k \in (r + 1)..Len(s) : IsSpace(s[k])

\* the end of the match of (\s+>>|\s+>)(?!...) that starts at a, 0 when there is none
RedirectionMatchEnd(s, a) ==
  IF ~ IsSpace(s[a]) THEN 0
  ELSE LET ends == {b \in a..Len(s) : \A k \in a..b : IsSpace(s[k])}
           b == CHOOSE e \in ends : \A f \in ends : f <= e
       IN IF b + 1 > Len(s) \/ s[b + 1] # Greater THEN 0
          ELSE IF b + 2 <= Len(s) /\ s[b + 2] = Greater /\ ~ TrailingQuoteAhead(s, b + 3)
               THEN b + 2
               ELSE IF ~ TrailingQuoteAhead(s, b + 2) THEN b + 1 ELSE 0

NoRedirection == [found |-> FALSE, message |-> <<>>]

\* a variant whose expression does not ask for a blank before >
checkForOutputRedirectionAnyGreater(s) ==
  IF \A a \in 1..Len(s) : s[a] # Greater THEN NoRedirection
  ELSE [found |-> TRUE,
        message |-> <<"Output redirection is not allowed. ", "overwrite",
                      " redirection operator (", Greater, ") detected.">>]

\* checkForOutputRedirection: the message built from matches[0], or null
checkForOutputRedirection(s) ==
  LET starts == {a \in 1..Len(s) : RedirectionMatchEnd(s, a) # 0}
  IN IF starts = {} THEN NoRedirection
     ELSE LET a == MinOf(starts)
              match == SubSeq(s, a, RedirectionMatchEnd(s, a))
              redirectionType == IF Includes(match, <<Greater, Greater>>)
                                 THEN "append" ELSE "overwrite"
          IN [found |-> TRUE,
              message |-> <<"Output redirection is not allowed. ", redirectionType,
                            " redirection operator (">> \o match \o <<") detected.">>]

-----------------------------------------------------------------------------
(* Tokenizer / extractor *)

\* s.replace(/q([^q]*)q/g, callback): every quoted span, left to right, is pushed
\* on quotedStrings and replaced by the placeholder of its index
RECURSIVE ReplaceQuoted(_, _, _)
ReplaceQuoted(s, q, quotedStrings) ==
  LET i == IndexOf(s, <<q>>)
      j == IF i = 0 THEN 0 ELSE IndexOf(SubSeq(s, i + 1, Len(s)), <<q>>)
  IN IF j = 0 THEN [text |-> s, quotedStrings |-> quotedStrings]
     ELSE LET match == SubSeq(s, i, i + j)
              r == ReplaceQuoted(SubSeq(s, i + j + 1, Len(s)), q,
                                 Append(quotedStrings, match))
          IN [text |-> SubSeq(s, 1, i - 1)
                         \o <<QuotePlaceholder(Len(quotedStrings))>> \o r.text,
              quotedStrings |-> r.quotedStrings]

\* a variant that ends a match at the parenthesis that closes it, so that a
\* match holds the substitutions nested in it
RECURSIVE MatchSubstitutionsBalanced(_, _)
MatchSubstitutionsBalanced(s, i) ==
  IF i + 3 > Len(s) THEN <<>>
  ELSE LET RECURSIVE Closing(_, _)
           Closing(j, open) ==
             IF j > Len(s) THEN 0
             ELSE IF s[j] = "(" THEN Closing(j + 1, open + 1)
             ELSE IF s[j] = ")"
                  THEN IF open = 1 THEN j ELSE Closing(j + 1, open - 1)
                  ELSE Closing(j + 1, open)
           end == Closing(i + 2, 1)
       IN IF s[i] = Dollar /\ s[i + 1] = "(" /\ s[i + 2] # ")" /\ end # 0
          THEN <<SubSeq(s, i, end)>> \o MatchSubstitutionsBalanced(s, end + 1)
          ELSE MatchSubstitutionsBalanced(s, i + 1)

\* s.match(COMMAND_SUBSTITUTION_REGEX): the matches of \$\([^)]+\) from position i
RECURSIVE MatchSubstitutions(_, _)
MatchSubstitutions(s, i) ==
  IF i + 3 > Len(s) THEN <<>>
  ELSE LET closing == {j \in (i + 3)..Len(s) : s[j] = ")"}
       IN IF s[i] = Dollar /\ s[i + 1] = "(" /\ s[i + 2] # ")" /\ closing # {}
          THEN <<SubSeq(s, i, MinOf(closing))>> \o MatchSubstitutions(s, MinOf(closing) + 1)
          ELSE MatchSubstitutions(s, i + 1)

\* s.split(SHELL_OPERATORS_REGEX): the texts between operator characters, with
\* the captured operators between them ([;|&] is tried first, so && and || are
\* never matched as one operator)
RECURSIVE SplitOperators(_, _, _)
SplitOperators(s, i, cur) ==
  IF i > Len(s) THEN <<cur>>
  ELSE IF s[i] \in OperatorChars
       THEN <<cur, <<s[i]>>>> \o SplitOperators(s, i + 1, <<>>)
       ELSE SplitOperators(s, i + 1, Append(cur, s[i]))

MapTrim(parts) == [k \in 1..Len(parts) |-> Trim(parts[k])]

\* part.match(/^([;|&]|&&|\|\||\(|\)|\{|\})$/)
IsOperatorPart(part) ==
  \/ Len(part) = 1 /\ part[1] \in OperatorChars
  \/ part \in {<<"&", "&">>, <<"|", "|">>}

\* part.match(/^__SUBST\d+__$/)
IsSubstPlaceholder(part) ==
  \E k \in 0..MaxIndex : part = <<SubstPlaceholder(k)>>

RECURSIVE ReplaceSubstitutions(_, _, _)
ReplaceSubstitutions(s, substitutions, index) ==
  IF index >= Len(substitutions) THEN s
  ELSE ReplaceSubstitutions(
         StringReplace(s, substitutions[index + 1], <<SubstPlaceholder(index)>>),
         substitutions, index + 1)

RECURSIVE RestoreQuotes(_, _, _)
RestoreQuotes(cmd, quotedStrings, idx) ==
  IF idx >= Len(quotedStrings) THEN cmd
  ELSE RestoreQuotes(
         StringReplace(cmd, <<QuotePlaceholder(idx)>>, quotedStrings[idx + 1]),
         quotedStrings, idx + 1)

NonEmpty(part) == part # <<>>

RECURSIVE extractCommands(_)
RECURSIVE InnerCommands(_, _)

\* the first forEach over substitutions: the commands of each inner text
InnerCommands(substitutions, k) ==
  IF k > Len(substitutions) THEN <<>>
  ELSE LET subst == substitutions[k]
           innerCommand == Trim(SubSeq(subst, 3, Len(subst) - 1))
       IN (IF innerCommand # <<>> THEN extractCommands(innerCommand) ELSE <<>>)
            \o InnerCommands(substitutions, k + 1)

extractCommands(s) ==
  LET dq == ReplaceQuoted(s, DoubleQuote, <<>>)
      sq == ReplaceQuoted(dq.text, SingleQuote, dq.quotedStrings)
      quotedStrings == sq.quotedStrings
      substitutions == MatchSubstitutions(sq.text, 1)
      processedCommand == ReplaceSubstitutions(sq.text, substitutions, 0)
      parts == MapTrim(SelectSeq(SplitOperators(processedCommand, 1, <<>>), NonEmpty))
      IsBasic(part) == ~ IsOperatorPart(part)
                       /\ ~ IsSubstPlaceholder(part)
      basicCommands == SelectSeq(parts, IsBasic)
      restored == [k \in 1..Len(basicCommands) |->
                      RestoreQuotes(basicCommands[k], quotedStrings, 0)]
  IN SelectSeq(InnerCommands(substitutions, 1) \o restored, NonEmpty)

-----------------------------------------------------------------------------
(* Policy: ShellCommandConfig, AllowCommand, DenyCommand *)

\* an AllowCommand given as a plain string
AllowString(name) ==
  [isString |-> TRUE, command |-> name,
   hasSubCommands |-> FALSE, subCommands |-> <<>>,
   hasDenySubCommands |-> FALSE, denySubCommands |-> <<>>]

\* an AllowCommand given as an object; either list may be absent
AllowObject(name, hasSub, subCommands, hasDeny, denySubCommands) ==
  [isString |-> FALSE, command |-> name,
   hasSubCommands |-> hasSub, subCommands |-> subCommands,
   hasDenySubCommands |-> hasDeny, denySubCommands |-> denySubCommands]

\* a DenyCommand given as a plain string, and as an object (message <<>>: none)
DenyString(name) == [isString |-> TRUE, command |-> name, message |-> <<>>]
DenyObject(name, message) == [isString |-> FALSE, command |-> name, message |-> message]

getCommandName(cmd) == cmd.command

getDenyCommandName(denyCmd) == denyCmd.command

\* a variant that ignores the message of the rule
getDenyCommandMessageDefault(denyCommand, cfg) == cfg.defaultErrorMessage

getDenyCommandMessage(denyCommand, cfg) ==
  IF ~ denyCommand.isString /\ denyCommand.message # <<>>
  THEN denyCommand.message
  ELSE cfg.defaultErrorMessage

\* command.startsWith('regex:')
isRegexPattern(command) == command # <<>> /\ command[1] = "regex:"

\* new RegExp(pattern.substring('regex:'.length)): the units of the expression,
\* each a literal word or .*
getRegexFromPattern(pattern) == Tail(pattern)

\* the expression matches a stretch of text that starts at position i
RECURSIVE RegexMatchesAt(_, _, _)
RegexMatchesAt(regex, text, i) ==
  IF regex = <<>> THEN TRUE
  ELSE IF Head(regex) = ".*"
       THEN \E j \in i..(Len(text) + 1) : RegexMatchesAt(Tail(regex), text, j)
       ELSE /\ i <= Len(text)
            /\ text[i] = Head(regex)
            /\ RegexMatchesAt(Tail(regex), text, i + 1)

\* regex.test(text): the expression matches somewhere in the text
RegexTest(regex, text) == \E i \in 1..(Len(text) + 1) : RegexMatchesAt(regex, text, i)

\* Array.prototype.includes
SeqIncludes(list, x) == \E k \in 1..Len(list) : list[k] = x

NotFound == [found |-> FALSE, index |-> 0]

\* a variant that reads denyCmd.command of every entry, which a plain string
\* does not have
FindDenyCommandObjectsOnly(name, denyCommands) ==
  LET hits == {k \in 1..Len(denyCommands) :
                 ~ denyCommands[k].isString /\ denyCommands[k].command = name}
  IN IF hits = {} THEN NotFound ELSE [found |-> TRUE, index |-> MinOf(hits)]

\* config.denyCommands.find(denyCmd => getDenyCommandName(denyCmd) === name)
FindDenyCommand(name, denyCommands) ==
  LET hits == {k \in 1..Len(denyCommands) : getDenyCommandName(denyCommands[k]) = name}
  IN IF hits = {} THEN NotFound ELSE [found |-> TRUE, index |-> MinOf(hits)]

\* a variant that also takes the name of a listed subcommand for the rule
findCommandInAllowlistWithSubCommands(commandName, allowCommands) ==
  LET hits == {k \in 1..Len(allowCommands) :
                 \/ getCommandName(allowCommands[k]) = commandName
                 \/ SeqIncludes(allowCommands[k].subCommands, commandName)}
  IN IF hits = {} THEN NotFound ELSE [found |-> TRUE, index |-> MinOf(hits)]

findCommandInAllowlist(commandName, allowCommands) ==
  LET hits == {k \in 1..Len(allowCommands) : getCommandName(allowCommands[k]) = commandName}
  IN IF hits = {} THEN NotFound ELSE [found |-> TRUE, index |-> MinOf(hits)]

-----------------------------------------------------------------------------
(* Verdicts: ValidationResult *)

NoDenyCommand == DenyString(<<>>)

NoBlockReason ==
  [present |-> FALSE, location |-> "", hasDenyCommand |-> FALSE, denyCommand |-> NoDenyCommand]

\* a block reason whose location was left empty
BlockReasonWithoutLocation(location) ==
  [NoBlockReason EXCEPT !.present = TRUE]

BlockReason(location) ==
  [present |-> TRUE, location |-> location, hasDenyCommand |-> FALSE,
   denyCommand |-> NoDenyCommand]

BlockReasonWith(location, denyCommand) ==
  [present |-> TRUE, location |-> location, hasDenyCommand |-> TRUE,
   denyCommand |-> denyCommand]

ValidationResult(isValid, command, baseCommand, message, cfg, blockReason) ==
  [isValid |-> isValid, command |-> command, baseCommand |-> baseCommand,
   message |-> message, allowedCommands |-> cfg.allowCommands,
   blockReason |-> blockReason]

Null == [isNull |-> TRUE, value |-> <<>>]
Some(v) == [isNull |-> FALSE, value |-> v]

-----------------------------------------------------------------------------
(* Exec-introducer handler *)

COMMANDS_THAT_EXECUTE_OTHER_COMMANDS == {<<"xargs">>, <<"find">>}

\* the words that contain the text -exec
ExecOptions == {"-exec", "-execdir"}

\* command.includes('-exec')
IncludesExec(command) == \E k \in 1..Len(command) : command[k] \in ExecOptions

\* the maximal run of non-blank characters that starts at position k
RECURSIVE NonBlankRun(_, _)
NonBlankRun(s, k) ==
  IF k > Len(s) \/ IsSpace(s[k]) THEN <<>> ELSE <<s[k]>> \o NonBlankRun(s, k + 1)

\* a variant that takes the last argument of xargs for the command it runs
extractCommandFromXargsLast(command) ==
  LET parts == SplitWhitespace(Trim(command))
      hits == {k \in 1..Len(parts) : parts[k] = <<"xargs">>}
  IN IF hits # {} /\ MinOf(hits) + 1 <= Len(parts) THEN parts[Len(parts)] ELSE <<>>

extractCommandFromXargs(command) ==
  LET parts == SplitWhitespace(Trim(command))
      hits == {k \in 1..Len(parts) : parts[k] = <<"xargs">>}
  IN IF hits # {} /\ MinOf(hits) + 1 <= Len(parts) THEN parts[MinOf(hits) + 1] ELSE <<>>

\* the first match of /\s+-exec(?:dir)?\s+(\S+)/ and its captured group
extractCommandFromFindExec(command) ==
  LET starts == {i \in 1..Len(command) :
                   /\ i + 3 <= Len(command)
                   /\ IsSpace(command[i])
                   /\ command[i + 1] \in ExecOptions
                   /\ IsSpace(command[i + 2])
                   /\ TrimStart(SubSeq(command, i + 2, Len(command))) # <<>>}
  IN IF starts = {} THEN <<>>
     ELSE NonBlankRun(TrimStart(SubSeq(command, MinOf(starts) + 2, Len(command))), 1)

\* a variant that also applies the subcommand lists of the allow rule that names
\* the nested command to the token that follows it
validateCommandExecCommandWithSubCommands(baseCommand, command, cfg, res) ==
  LET extractedCommand ==
        IF baseCommand = <<"xargs">> THEN extractCommandFromXargs(command)
        ELSE IF baseCommand = <<"find">> /\ IncludesExec(command)
             THEN extractCommandFromFindExec(command)
             ELSE <<>>
      blacklistedCmd == FindDenyCommand(extractedCommand, cfg.denyCommands)
      matchedAllowCommand == findCommandInAllowlist(extractedCommand, cfg.allowCommands)
      parts == SplitWhitespace(Trim(command))
      at == MinOf({k \in 2..Len(parts) : parts[k] = extractedCommand})
      nestedParts == SubSeq(parts, at, Len(parts))
      rule == cfg.allowCommands[matchedAllowCommand.index]
      refused ==
        /\ ~ rule.isString
        /\ Len(nestedParts) > 1
        /\ \/ rule.hasDenySubCommands
              /\ \E k \in 1..Len(rule.denySubCommands) :
                    rule.denySubCommands[k] = nestedParts[2]
           \/ rule.hasSubCommands
              /\ \A k \in 1..Len(rule.subCommands) : rule.subCommands[k] # nestedParts[2]
  IN IF extractedCommand = <<>> THEN Null
     ELSE IF blacklistedCmd.found
          THEN Some([res EXCEPT
                 !.message = getDenyCommandMessage(cfg.denyCommands[blacklistedCmd.index], cfg),
                 !.blockReason = BlockReasonWith(
                      "validateCommandWithArgs:blacklistedCommandInExec",
                      cfg.denyCommands[blacklistedCmd.index])])
          ELSE IF ~ matchedAllowCommand.found
               THEN Some([res EXCEPT
                      !.message = cfg.defaultErrorMessage \o <<": ">> \o extractedCommand
                                    \o <<" (in ">> \o baseCommand \o <<")">>,
                      !.blockReason = BlockReason(
                           "validateCommandWithArgs:commandInExecNotInAllowlist")])
               ELSE IF refused
                    THEN Some([res EXCEPT
                           !.message = cfg.defaultErrorMessage \o <<": ">> \o extractedCommand
                                         \o <<Space>> \o nestedParts[2],
                           !.blockReason = BlockReason(
                                "validateCommandWithArgs:subcommandNotInAllowlist")])
                    ELSE Null

validateCommandExecCommand(baseCommand, command, cfg, res) ==
  LET extractedCommand ==
        IF baseCommand = <<"xargs">> THEN extractCommandFromXargs(command)
        ELSE IF baseCommand = <<"find">> /\ IncludesExec(command)
             THEN extractCommandFromFindExec(command)
             ELSE <<>>
      blacklistedCmd == FindDenyCommand(extractedCommand, cfg.denyCommands)
      matchedAllowCommand == findCommandInAllowlist(extractedCommand, cfg.allowCommands)
  IN IF extractedCommand = <<>> THEN Null
     ELSE IF blacklistedCmd.found
          THEN Some([res EXCEPT
                 !.message = getDenyCommandMessage(cfg.denyCommands[blacklistedCmd.index], cfg),
                 !.blockReason = BlockReasonWith(
                      "validateCommandWithArgs:blacklistedCommandInExec",
                      cfg.denyCommands[blacklistedCmd.index])])
          ELSE IF ~ matchedAllowCommand.found
               THEN Some([res EXCEPT
                      !.message = cfg.defaultErrorMessage \o <<": ">> \o extractedCommand
                                    \o <<" (in ">> \o baseCommand \o <<")">>,
                      !.blockReason = BlockReason(
                           "validateCommandWithArgs:commandInExecNotInAllowlist")])
               ELSE Null

-----------------------------------------------------------------------------
(* Policy matcher for one command *)

\* a variant that never consults subCommands
validateSubCommandNoList(parts, matchedCommand, res, cfg) ==
  LET baseCommand == parts[1]
      subCommand == parts[2]
  IN IF Len(parts) > 1 /\ matchedCommand.hasDenySubCommands
                       /\ SeqIncludes(matchedCommand.denySubCommands, subCommand)
     THEN [res EXCEPT
             !.message = cfg.defaultErrorMessage \o <<": ">> \o baseCommand
                           \o <<Space>> \o subCommand,
             !.blockReason = BlockReasonWith("validateCommandWithArgs:deniedSubcommand",
                               DenyObject(baseCommand \o <<Space>> \o subCommand, <<>>))]
     ELSE [res EXCEPT !.isValid = TRUE, !.message = <<"allowed command(object config)">>]

\* a variant that consults subCommands before denySubCommands
validateSubCommandAllowFirst(parts, matchedCommand, res, cfg) ==
  LET baseCommand == parts[1]
      subCommand == parts[2]
      rejected(location) ==
        [res EXCEPT
           !.message = cfg.defaultErrorMessage \o <<": ">> \o baseCommand
                         \o <<Space>> \o subCommand,
           !.blockReason = BlockReasonWith(location,
                             DenyObject(baseCommand \o <<Space>> \o subCommand, <<>>))]
  IN IF Len(parts) > 1 /\ matchedCommand.hasSubCommands
     THEN IF SeqIncludes(matchedCommand.subCommands, subCommand)
          THEN [res EXCEPT !.isValid = TRUE, !.message = <<"allowed subcommand">>]
          ELSE rejected("validateCommandWithArgs:subcommandNotInAllowlist")
     ELSE IF Len(parts) > 1 /\ matchedCommand.hasDenySubCommands
                            /\ SeqIncludes(matchedCommand.denySubCommands, subCommand)
     THEN rejected("validateCommandWithArgs:deniedSubcommand")
     ELSE [res EXCEPT !.isValid = TRUE, !.message = <<"allowed command(object config)">>]

\* the subcommand checks of an object rule (matchedCommand), and the verdict
\* when none of them returns
validateSubCommand(parts, matchedCommand, res, cfg) ==
  LET baseCommand == parts[1]
      subCommand == parts[2]
      rejected(location) ==
        [res EXCEPT
           !.message = cfg.defaultErrorMessage \o <<": ">> \o baseCommand
                         \o <<Space>> \o subCommand,
           !.blockReason = BlockReasonWith(location,
                             DenyObject(baseCommand \o <<Space>> \o subCommand, <<>>))]
  IN IF Len(parts) > 1 /\ matchedCommand.hasDenySubCommands
                       /\ SeqIncludes(matchedCommand.denySubCommands, subCommand)
     THEN rejected("validateCommandWithArgs:deniedSubcommand")
     ELSE IF Len(parts) > 1 /\ matchedCommand.hasSubCommands
     THEN IF SeqIncludes(matchedCommand.subCommands, subCommand)
          THEN [res EXCEPT !.isValid = TRUE, !.message = <<"allowed subcommand">>]
          ELSE rejected("validateCommandWithArgs:subcommandNotInAllowlist")
     ELSE [res EXCEPT !.isValid = TRUE, !.message = <<"allowed command(object config)">>]

validateCommandWithArgs(command, cfg) ==
  LET parts == SplitWhitespace(Trim(command))
      baseCommand == parts[1]
      res == ValidationResult(FALSE, command, baseCommand, <<>>, cfg, NoBlockReason)
      blacklistedCmd == FindDenyCommand(baseCommand, cfg.denyCommands)
      execCommandResult ==
        IF baseCommand \in COMMANDS_THAT_EXECUTE_OTHER_COMMANDS
        THEN validateCommandExecCommand(baseCommand, command, cfg, res)
        ELSE Null
      matchedCommand == findCommandInAllowlist(baseCommand, cfg.allowCommands)
  IN IF baseCommand = <<>>
     THEN [res EXCEPT !.message = <<"empty command">>,
                      !.blockReason = BlockReason("validateCommandWithArgs:emptyCommand")]
     ELSE IF blacklistedCmd.found
     THEN [res EXCEPT
             !.message = getDenyCommandMessage(cfg.denyCommands[blacklistedCmd.index], cfg),
             !.blockReason = BlockReasonWith(
                  "validateCommandWithArgs:blacklistedBaseCommand",
                  cfg.denyCommands[blacklistedCmd.index])]
     ELSE IF ~ execCommandResult.isNull
     THEN execCommandResult.value
     ELSE IF ~ matchedCommand.found
     THEN [res EXCEPT
             !.message = cfg.defaultErrorMessage \o <<": ">> \o baseCommand,
             !.blockReason = BlockReason("validateCommandWithArgs:commandNotInAllowlist")]
     ELSE IF cfg.allowCommands[matchedCommand.index].isString
     THEN [res EXCEPT !.isValid = TRUE, !.message = <<"allowed command(string config)">>]
     ELSE validateSubCommand(parts, cfg.allowCommands[matchedCommand.index], res, cfg)

-----------------------------------------------------------------------------
(* Validation orchestrator *)

\* cmd.startsWith('{ ') || cmd.startsWith('(')
IsGroupingCommand(cmd) ==
  \/ Len(cmd) >= 2 /\ cmd[1] = "{" /\ cmd[2] = Space
  \/ Len(cmd) >= 1 /\ cmd[1] = "("

\* the for loop over commandsToCheck, from its k-th element
\* the loop taken from the last command to the first
RECURSIVE ValidateEachFromEnd(_, _, _)
ValidateEachFromEnd(commandsToCheck, k, cfg) ==
  IF k > Len(commandsToCheck) THEN Null
  ELSE LET cmd == commandsToCheck[Len(commandsToCheck) - k + 1]
           cmdRedirectionError == checkForOutputRedirection(cmd)
           res == validateCommandWithArgs(cmd, cfg)
       IN IF cmdRedirectionError.found
          THEN Some(ValidationResult(FALSE, cmd, <<>>, cmdRedirectionError.message, cfg,
                      BlockReason("validateMultipleCommands:subcommandRedirectionError")))
          ELSE IF ~ res.isValid THEN Some(res)
          ELSE ValidateEachFromEnd(commandsToCheck, k + 1, cfg)

RECURSIVE ValidateEach(_, _, _)
ValidateEach(commandsToCheck, k, cfg) ==
  IF k > Len(commandsToCheck) THEN Null
  ELSE LET cmd == commandsToCheck[k]
           cmdRedirectionError == checkForOutputRedirection(cmd)
           res == validateCommandWithArgs(cmd, cfg)
       IN IF cmdRedirectionError.found
          THEN Some(ValidationResult(FALSE, cmd, <<>>, cmdRedirectionError.message, cfg,
                      BlockReason("validateMultipleCommands:subcommandRedirectionError")))
          ELSE IF ~ res.isValid THEN Some(res)
          ELSE ValidateEach(commandsToCheck, k + 1, cfg)

validateMultipleCommands(s, cfg) ==
  LET redirectionError == checkForOutputRedirection(s)
      commands == extractCommands(s)
      IsChecked(cmd) == ~ IsGroupingCommand(cmd)
      commandsToCheck == SelectSeq(commands, IsChecked)
      failure == ValidateEach(commandsToCheck, 1, cfg)
  IN IF redirectionError.found
     THEN ValidationResult(FALSE, s, <<>>, redirectionError.message, cfg,
            BlockReason("validateMultipleCommands:redirectionError"))
     ELSE IF Len(commandsToCheck) = 0
     THEN ValidationResult(FALSE, s, <<>>, <<"empty command">>, cfg,
            BlockReason("validateMultipleCommands:emptyCommand"))
     ELSE IF ~ failure.isNull THEN failure.value
     ELSE ValidationResult(TRUE, s, commandsToCheck[1], <<"all commands are allowed">>,
            cfg, NoBlockReason)

-----------------------------------------------------------------------------
(* Configurations a configuration file can produce *)

DefaultErrorMessage == <<"Command not allowed">>

\* a regular-expression deny rule, as DEFAULT_CONFIG writes 'regex:.*sudo.*'
RegexSudo == <<"regex:", ".*", "sudo", ".*">>

\* ls free, git restricted to one subcommand, xargs and find allowed, rm both
\* denied and allowed
ConfigA ==
  [allowCommands |-> <<AllowString(<<"ls">>),
                       AllowObject(<<"git">>, TRUE, <<<<"status">>>>, FALSE, <<>>),
                       AllowString(<<"xargs">>),
                       AllowString(<<"find">>),
                       AllowString(<<"rm">>)>>,
   denyCommands |-> <<DenyObject(<<"rm">>, <<"rm is dangerous">>),
                      DenyString(<<"sudo">>)>>,
   defaultErrorMessage |-> DefaultErrorMessage]

\* after DEFAULT_CONFIG: find denied, sudo denied by pattern, xargs not listed,
\* git open except for one subcommand
ConfigB ==
  [allowCommands |-> <<AllowString(<<"ls">>),
                       AllowObject(<<"git">>, FALSE, <<>>, TRUE, <<<<"push">>>>)>>,
   denyCommands |-> <<DenyObject(<<"rm">>, <<"rm is dangerous">>),
                      DenyObject(RegexSudo, <<"sudo is not allowed">>),
                      DenyObject(<<"find">>, <<"use git grep">>)>>,
   defaultErrorMessage |-> DefaultErrorMessage]

\* git with both lists, xargs open except for one subcommand, find restricted
\* to one subcommand, rm denied by a plain string and allowed
ConfigC ==
  [allowCommands |-> <<AllowString(<<"ls">>),
                       AllowObject(<<"git">>, TRUE, <<<<"status">>, <<"push">>>>,
                                   TRUE, <<<<"push">>>>),
                       AllowObject(<<"xargs">>, FALSE, <<>>, TRUE, <<<<"ls">>>>),
                       AllowObject(<<"find">>, TRUE, <<<<"ls">>>>, FALSE, <<>>),
                       AllowString(<<"rm">>)>>,
   denyCommands |-> <<DenyString(<<"rm">>)>>,
   defaultErrorMessage |-> DefaultErrorMessage]

Configs == {ConfigA, ConfigB, ConfigC}

-----------------------------------------------------------------------------
(* Inputs *)

\* the most arguments of a single command
MaxArgs == 3

\* the most pieces of a text with shell syntax
MaxShellPieces == 4

\* the most pieces of a text with quoted command substitutions
MaxSubstPieces == 6

ArgWords == {"ls", "rm", "git", "status", "push", "xargs", "find", "-exec", "sudo"}

\* a word, or nothing (two blanks in a row, or a blank at either end)
ArgTokens == {<<w>> : w \in ArgWords} \cup {<<>>}

RECURSIVE JoinTokens(_)
JoinTokens(tokens) ==
  IF tokens = <<>> THEN <<>>
  ELSE IF Len(tokens) = 1 THEN tokens[1]
  ELSE tokens[1] \o <<Space>> \o JoinTokens(Tail(tokens))

SeqsUpTo(S, n) == UNION {[1..k -> S] : k \in 0..n}

\* single commands: words separated by blanks
ArgInputs == {JoinTokens(ts) : ts \in SeqsUpTo(ArgTokens, MaxArgs)}

RECURSIVE Flatten(_)
Flatten(pieces) == IF pieces = <<>> THEN <<>> ELSE Head(pieces) \o Flatten(Tail(pieces))

ShellPieces == {<<"ls">>, <<"rm">>, <<"xargs">>, <<Space>>, <<";">>, <<Greater>>,
                <<DoubleQuote>>, <<Dollar, "(", "ls", ")">>, <<Dollar, "(", "rm", ")">>}

\* texts with operators, quotes, redirections and command substitutions
ShellInputs == {Flatten(ps) : ps \in SeqsUpTo(ShellPieces, MaxShellPieces)}

SubstPieces == {<<"ls", Space>>, <<"rm">>, <<Dollar, "(">>, <<")">>, <<DoubleQuote>>,
                <<SingleQuote>>}

\* texts with command substitutions, quoted or not
SubstInputs == {Flatten(ps) : ps \in SeqsUpTo(SubstPieces, MaxSubstPieces)}

-----------------------------------------------------------------------------
(* The state machine *)

NoResult == ValidationResult(FALSE, <<>>, <<>>, <<>>, [allowCommands |-> <<>>], NoBlockReason)

\* currentConfig = loadConfig() at module load; no call has been made
InitWith(inputs) ==
  /\ currentConfig \in Configs
  /\ commandString \in inputs
  /\ called = "none"
  /\ result = NoResult

Init == InitWith(ArgInputs)

InitShell == InitWith(ShellInputs)

InitSubst == InitWith(SubstInputs)

\* a reload that does not wait for the running call to return
ReloadConfigDuringCall ==
  /\ \E c \in Configs : currentConfig' = c
  /\ UNCHANGED <<commandString, called, result>>

\* reloadConfig(): currentConfig = loadConfig().  Validation is synchronous, so
\* a reload runs between calls, never inside one.
ReloadConfig ==
  /\ called = "none"
  /\ \E c \in Configs : currentConfig' = c
  /\ UNCHANGED <<commandString, called, result>>

\* a call validateCommandWithArgs(commandString), up to its return statement
CallValidateCommandWithArgs ==
  /\ called = "none"
  /\ result' = validateCommandWithArgs(commandString, currentConfig)
  /\ called' = "validateCommandWithArgs"
  /\ UNCHANGED <<currentConfig, commandString>>

\* a call validateMultipleCommands(commandString), up to its return statement
CallValidateMultipleCommands ==
  /\ called = "none"
  /\ result' = validateMultipleCommands(commandString, currentConfig)
  /\ called' = "validateMultipleCommands"
  /\ UNCHANGED <<currentConfig, commandString>>

\* the verdict passes to the caller; the validator keeps nothing of the call
Return ==
  /\ called # "none"
  /\ called' = "none"
  /\ result' = NoResult
  /\ UNCHANGED <<currentConfig, commandString>>

Next ==
  \/ ReloadConfig
  \/ CallValidateCommandWithArgs
  \/ CallValidateMultipleCommands
  \/ Return

Spec == Init /\ [][Next]_vars

SpecShell == InitShell /\ [][Next]_vars

SpecSubst == InitSubst /\ [][Next]_vars

-----------------------------------------------------------------------------
(* Vocabulary of the properties *)

\* the whitespace-delimited tokens of a command, and its base command
TokensOf(s) == SplitWhitespace(Trim(s))
BaseCommandOf(s) == TokensOf(s)[1]

DenyRulesNamed(name, cfg) ==
  {k \in 1..Len(cfg.denyCommands) : cfg.denyCommands[k].command = name}
IsDenied(name, cfg) == DenyRulesNamed(name, cfg) # {}
FirstDenyRule(name, cfg) == cfg.denyCommands[MinOf(DenyRulesNamed(name, cfg))]

AllowRulesNamed(name, cfg) ==
  {k \in 1..Len(cfg.allowCommands) : cfg.allowCommands[k].command = name}
IsAllowed(name, cfg) == AllowRulesNamed(name, cfg) # {}
FirstAllowRule(name, cfg) == cfg.allowCommands[MinOf(AllowRulesNamed(name, cfg))]

\* the message of a deny rule: its own, else the default error message
MessageOfRule(rule, cfg) ==
  IF rule.isString \/ rule.message = <<>> THEN cfg.defaultErrorMessage ELSE rule.message

ExecIntroducers == {<<"xargs">>, <<"find">>}

\* the command an exec-introducer would run: the first token after xargs, the
\* token that follows the first -exec or -execdir of find that has one
NestedCommandOf(s) ==
  LET tokens == TokensOf(s)
      opts == {k \in 2..(Len(tokens) - 1) : tokens[k] \in {<<"-exec">>, <<"-execdir">>}}
  IN IF tokens[1] = <<"xargs">>
     THEN IF Len(tokens) >= 2 THEN tokens[2] ELSE <<>>
     ELSE IF tokens[1] = <<"find">> /\ opts # {} THEN tokens[MinOf(opts) + 1]
     ELSE <<>>

ExecLocations == {"validateCommandWithArgs:blacklistedCommandInExec",
                  "validateCommandWithArgs:commandInExecNotInAllowlist"}

\* the check of an exec-introducer's nested command rejects the command: it has
\* a nested command, and a deny rule or no allow rule names it
NestedCommandRejected ==
  LET nested == NestedCommandOf(commandString)
  IN /\ nested # <<>>
     /\ \/ IsDenied(nested, currentConfig)
        \/ ~ IsAllowed(nested, currentConfig)

ReturnedFromCommandWithArgs == called = "validateCommandWithArgs"
ReturnedFromMultipleCommands == called = "validateMultipleCommands"

-----------------------------------------------------------------------------
(* Properties of validateCommandWithArgs *)

\* C3: when the base command is named by a deny rule and by an allow rule,
\* validateCommandWithArgs rejects it with the message of the first deny rule of
\* that name (its own message, else defaultErrorMessage), reports that rule and
\* the location 'validateCommandWithArgs:blacklistedBaseCommand'.
C3_DenyPrecedesAllow ==
  LET base == BaseCommandOf(commandString)
      rule == FirstDenyRule(base, currentConfig)
  IN (ReturnedFromCommandWithArgs /\ IsDenied(base, currentConfig)
                                  /\ IsAllowed(base, currentConfig))
     => /\ ~ result.isValid
        /\ result.message = MessageOfRule(rule, currentConfig)
        /\ result.blockReason.present
        /\ result.blockReason.location = "validateCommandWithArgs:blacklistedBaseCommand"
        /\ result.blockReason.hasDenyCommand
        /\ result.blockReason.denyCommand = rule

\* rm with arguments, denied with its own message although an allow rule names it
C3_Witness ==
  /\ ReturnedFromCommandWithArgs
  /\ currentConfig = ConfigA
  /\ TokensOf(commandString) = <<<<"rm">>, <<"ls">>>>
  /\ IsAllowed(<<"rm">>, currentConfig)
  /\ result.message = <<"rm is dangerous">>
  /\ result.blockReason.location = "validateCommandWithArgs:blacklistedBaseCommand"

\* C5 as stated: a base command that no allow rule and no deny rule names is
\* rejected with location 'validateCommandWithArgs:commandNotInAllowlist' and the
\* message defaultErrorMessage, ': ', the base command.
C5_AsStated ==
  LET base == BaseCommandOf(commandString)
  IN (ReturnedFromCommandWithArgs /\ base # <<>>
        /\ ~ IsDenied(base, currentConfig) /\ ~ IsAllowed(base, currentConfig))
     => /\ ~ result.isValid
        /\ result.blockReason.location = "validateCommandWithArgs:commandNotInAllowlist"
        /\ result.message = currentConfig.defaultErrorMessage \o <<": ">> \o base

\* C5, amended: such a command is always rejected; the location is
\* 'validateCommandWithArgs:commandNotInAllowlist' and the message names the base
\* command unless the base command is xargs or find and the command it would run
\* is itself denied or not allow-listed, which is reported first, with the
\* location of that nested check.
C5_FailClosed ==
  LET base == BaseCommandOf(commandString)
  IN (ReturnedFromCommandWithArgs /\ base # <<>>
        /\ ~ IsDenied(base, currentConfig) /\ ~ IsAllowed(base, currentConfig))
     => /\ ~ result.isValid
        /\ result.blockReason.present
        /\ IF NestedCommandRejected
           THEN result.blockReason.location \in ExecLocations
           ELSE /\ result.blockReason.location =
                     "validateCommandWithArgs:commandNotInAllowlist"
                /\ result.message = currentConfig.defaultErrorMessage \o <<": ">> \o base

\* sudo with an argument under a configuration that never mentions sudo
C5_Witness ==
  /\ ReturnedFromCommandWithArgs
  /\ currentConfig = ConfigC
  /\ TokensOf(commandString) = <<<<"sudo">>, <<"ls">>>>
  /\ ~ result.isValid
  /\ result.blockReason.location = "validateCommandWithArgs:commandNotInAllowlist"
  /\ result.message = <<"Command not allowed", ": ", "sudo">>

\* the case of C6 and C7: the call returned, no deny rule names the base command
\* and the first allow rule that names it is an object rule
MatchedObjectRule ==
  LET base == BaseCommandOf(commandString)
  IN /\ ReturnedFromCommandWithArgs
     /\ base # <<>>
     /\ ~ IsDenied(base, currentConfig)
     /\ IsAllowed(base, currentConfig)
     /\ ~ FirstAllowRule(base, currentConfig).isString

HasSubCommand == Len(TokensOf(commandString)) > 1
SubCommandOf(s) == TokensOf(s)[2]

InList(list, x) == \E k \in 1..Len(list) : list[k] = x

C7_AsStated ==
  LET rule == FirstAllowRule(BaseCommandOf(commandString), currentConfig)
      denied == HasSubCommand /\ InList(rule.denySubCommands, SubCommandOf(commandString))
  IN (MatchedObjectRule /\ rule.hasDenySubCommands)
     => /\ denied => /\ ~ result.isValid
                     /\ result.blockReason.location =
                          "validateCommandWithArgs:deniedSubcommand"
        /\ (~ denied /\ ~ rule.hasSubCommands) => result.isValid

\* C7, amended: the same, unless the check of an exec-introducer's nested
\* command rejects the command first (a rule for xargs or find).
C7_DenySubCommandsOpen ==
  LET rule == FirstAllowRule(BaseCommandOf(commandString), currentConfig)
      denied == HasSubCommand /\ InList(rule.denySubCommands, SubCommandOf(commandString))
  IN (MatchedObjectRule /\ rule.hasDenySubCommands /\ ~ NestedCommandRejected)
     => /\ denied => /\ ~ result.isValid
                     /\ result.blockReason.present
                     /\ result.blockReason.location =
                          "validateCommandWithArgs:deniedSubcommand"
        /\ (~ denied /\ ~ rule.hasSubCommands) => result.isValid

\* git push where the rule lists push in both subCommands and denySubCommands
C7_Witness ==
  /\ ReturnedFromCommandWithArgs
  /\ currentConfig = ConfigC
  /\ TokensOf(commandString) = <<<<"git">>, <<"push">>>>
  /\ ~ result.isValid
  /\ result.blockReason.location = "validateCommandWithArgs:deniedSubcommand"

\* what C8 says of a call on an exec-introducer with a nested command
NestedCommandChecked ==
  LET base == BaseCommandOf(commandString)
      nested == NestedCommandOf(commandString)
      outer == /\ ~ result.isValid
               /\ result.blockReason.present
               /\ result.command = commandString
               /\ result.baseCommand = base
  IN /\ IsDenied(nested, currentConfig)
          => /\ outer
             /\ result.message = MessageOfRule(FirstDenyRule(nested, currentConfig),
                                               currentConfig)
             /\ result.blockReason.location =
                  "validateCommandWithArgs:blacklistedCommandInExec"
             /\ result.blockReason.denyCommand = FirstDenyRule(nested, currentConfig)
     /\ (~ IsDenied(nested, currentConfig) /\ ~ IsAllowed(nested, currentConfig))
          => /\ outer
             /\ result.blockReason.location =
                  "validateCommandWithArgs:commandInExecNotInAllowlist"

\* C8 as stated: for base command xargs or find with a nested command, a
\* nested command named by a deny rule is rejected with that rule's message and
\* location blacklistedCommandInExec, one named by no allow rule with location
\* commandInExecNotInAllowlist; command and baseCommand are the outer ones.
C8_AsStated ==
  (/\ ReturnedFromCommandWithArgs
   /\ BaseCommandOf(commandString) \in ExecIntroducers
   /\ NestedCommandOf(commandString) # <<>>)
  => NestedCommandChecked

\* C8, amended: the same, when no deny rule names xargs or find itself (a denied
\* base command is rejected first, with location blacklistedBaseCommand).
C8_NestedCommandChecked ==
  (/\ ReturnedFromCommandWithArgs
   /\ BaseCommandOf(commandString) \in ExecIntroducers
   /\ ~ IsDenied(BaseCommandOf(commandString), currentConfig)
   /\ NestedCommandOf(commandString) # <<>>)
  => NestedCommandChecked

\* find -exec rm, where find is allowed and rm is denied with its own message
C8_Witness ==
  /\ ReturnedFromCommandWithArgs
  /\ currentConfig = ConfigA
  /\ TokensOf(commandString) = <<<<"find">>, <<"-exec">>, <<"rm">>>>
  /\ result.message = <<"rm is dangerous">>
  /\ result.baseCommand = <<"find">>
  /\ result.blockReason.location = "validateCommandWithArgs:blacklistedCommandInExec"

-----------------------------------------------------------------------------
(* Properties of validateMultipleCommands *)

NoOperator(s) == \A i \in 1..Len(s) : s[i] \notin OperatorChars

NoDollar(s) == \A i \in 1..Len(s) : s[i] # Dollar

\* no > that a blank precedes
NoBlankGreater(s) == \A i \in 1..(Len(s) - 1) : ~ (IsSpace(s[i]) /\ s[i + 1] = Greater)

\* no text of the form __QUOTEn__ or __SUBSTn__
NoPlaceholderText(s) ==
  \A i \in 1..Len(s) : \A k \in 0..MaxIndex :
     s[i] # QuotePlaceholder(k) /\ s[i] # SubstPlaceholder(k)

SimpleAllowedBase ==
  LET base == BaseCommandOf(commandString)
  IN /\ ReturnedFromMultipleCommands
     /\ base # <<>>
     /\ ~ IsDenied(base, currentConfig)
     /\ IsAllowed(base, currentConfig)
     /\ FirstAllowRule(base, currentConfig).isString

\* C4 as stated: an input whose base command is allowed by a string rule and
\* named by no deny rule gets isValid = true, whatever its arguments.
C4_AsStated == SimpleAllowedBase => result.isValid

\* C4, amended: such an input gets isValid = true, whatever its arguments, when
\* it is one plain command: no shell operator character, no $, no > that a blank
\* precedes, no placeholder text, and a base command other than xargs and find.
C4_SimpleRuleAcceptsPlainCommand ==
  (/\ SimpleAllowedBase
   /\ NoOperator(commandString)
   /\ NoDollar(commandString)
   /\ NoBlankGreater(commandString)
   /\ NoPlaceholderText(commandString)
   /\ BaseCommandOf(commandString) \notin ExecIntroducers)
  => /\ result.isValid
     /\ ~ result.blockReason.present
     /\ result.command = commandString

\* ls with the name of a denied command as its argument
C4_Witness ==
  /\ ReturnedFromMultipleCommands
  /\ currentConfig = ConfigA
  /\ commandString = <<"ls", Space, "rm">>
  /\ result.isValid

-----------------------------------------------------------------------------
(* The commands a shell would run for an input *)

SubstMark == "$(...)"

QuoteModes == {"dq", "sq"}

\* one more character of the segment being read: inside quotes it belongs to
\* the command around the quotes
AddChar(frames, c) ==
  LET n == IF frames[Len(frames)].mode \in QuoteModes THEN Len(frames) - 1 ELSE Len(frames)
  IN [frames EXCEPT ![n].cur = Append(@, c)]

Push(frames, mode) == Append(frames, [mode |-> mode, cur |-> <<>>])
Pop(frames) == SubSeq(frames, 1, Len(frames) - 1)

\* the segment being read ends: a command, inside a substitution or not
Emit(out, frames) ==
  out \cup {[text |-> Trim(frames[Len(frames)].cur),
             inSubst |-> \E k \in 1..Len(frames) : frames[k].mode = "subst"]}

Restart(frames) == [frames EXCEPT ![Len(frames)].cur = <<>>]

\* a left-to-right reading of s that follows the shell's quoting: double quotes
\* hide operators but not $( ), single quotes hide everything, $( and ( open a
\* nested list of commands that the matching ) closes
RECURSIVE ScanCommands(_, _, _, _)
ScanCommands(s, i, frames, out) ==
  IF i > Len(s)
  THEN [wellFormed |-> Len(frames) = 1, commands |-> Emit(out, frames)]
  ELSE LET c == s[i]
           mode == frames[Len(frames)].mode
           opensSubst == c = Dollar /\ i < Len(s) /\ s[i + 1] = "("
       IN IF mode = "sq"
          THEN ScanCommands(s, i + 1,
                 IF c = SingleQuote THEN Pop(AddChar(frames, c)) ELSE AddChar(frames, c), out)
          ELSE IF opensSubst
          THEN ScanCommands(s, i + 2, Push(AddChar(frames, SubstMark), "subst"), out)
          ELSE IF mode = "dq"
          THEN ScanCommands(s, i + 1,
                 IF c = DoubleQuote THEN Pop(AddChar(frames, c)) ELSE AddChar(frames, c), out)
          ELSE IF c = DoubleQuote
          THEN ScanCommands(s, i + 1, Push(AddChar(frames, c), "dq"), out)
          ELSE IF c = SingleQuote
          THEN ScanCommands(s, i + 1, Push(AddChar(frames, c), "sq"), out)
          ELSE IF c = "("
          THEN ScanCommands(s, i + 1, Push(Restart(frames), "group"), Emit(out, frames))
          ELSE IF c = ")" /\ Len(frames) > 1
          THEN ScanCommands(s, i + 1, Pop(frames), Emit(out, frames))
          ELSE IF c \in OperatorChars
          THEN ScanCommands(s, i + 1, Restart(frames), Emit(out, frames))
          ELSE ScanCommands(s, i + 1, AddChar(frames, c), out)

ShellCommandsOf(s) == ScanCommands(s, 1, <<[mode |-> "top", cur |-> <<>>]>>, {})

\* a command whose base command is plain text: not empty, not itself the output
\* of a substitution
HasPlainBase(cmd) ==
  /\ cmd.text # <<>>
  /\ \A k \in 1..Len(BaseCommandOf(cmd.text)) : BaseCommandOf(cmd.text)[k] # SubstMark

\* a deny rule names the base command of cmd, or no allow rule does
Forbidden(cmd, cfg) ==
  \/ IsDenied(BaseCommandOf(cmd.text), cfg)
  \/ ~ IsAllowed(BaseCommandOf(cmd.text), cfg)

\* C1: validateMultipleCommands returns isValid = true only if the base command
\* of every command of the input (every segment between unquoted operators and
\* every command inside a $( ) substitution) is named by no deny rule and by an
\* allow rule.  Stated for inputs whose quotes and parentheses are balanced.
C1_ValidOnlyIfEveryCommandAllowed ==
  LET scan == ShellCommandsOf(commandString)
  IN (ReturnedFromMultipleCommands /\ result.isValid /\ scan.wellFormed)
     => \A cmd \in scan.commands : HasPlainBase(cmd) => ~ Forbidden(cmd, currentConfig)

\* C9: an input that holds a $( ) substitution whose inner command has a base
\* command that a deny rule names or no allow rule names gets isValid = false,
\* wherever the substitution stands in an otherwise allowed command.  Stated for
\* inputs whose quotes and parentheses are balanced; a substitution inside
\* single quotes is text, not a substitution.
C9_ForbiddenSubstitutionRejected ==
  LET scan == ShellCommandsOf(commandString)
  IN (/\ ReturnedFromMultipleCommands
      /\ scan.wellFormed
      /\ \E cmd \in scan.commands :
            cmd.inSubst /\ HasPlainBase(cmd) /\ Forbidden(cmd, currentConfig))
     => ~ result.isValid

-----------------------------------------------------------------------------
(* Pattern deny rules *)

\* C10: when the regular expression of a deny rule whose name starts with
\* 'regex:' matches the entire raw command text, validation rejects the command
\* and reports that rule with its message.
C10_PatternDenyRuleRejects ==
  \A k \in 1..Len(currentConfig.denyCommands) :
     LET rule == currentConfig.denyCommands[k]
     IN (/\ ReturnedFromMultipleCommands
         /\ isRegexPattern(getDenyCommandName(rule))
         /\ RegexTest(getRegexFromPattern(getDenyCommandName(rule)), commandString))
        => /\ ~ result.isValid
           /\ result.blockReason.hasDenyCommand
           /\ result.blockReason.denyCommand = rule
           /\ result.message = MessageOfRule(rule, currentConfig)

-----------------------------------------------------------------------------
(* The exported text functions, called on their own *)

\* the most pieces of a text given to the redirection guard
MaxRedirectPieces == 5

RedirectPieces == {<<"ls">>, <<Space>>, <<Greater>>, <<DoubleQuote>>, <<SingleQuote>>}

\* texts with redirection characters and quotes, balanced or not
RedirectInputs == {Flatten(ps) : ps \in SeqsUpTo(RedirectPieces, MaxRedirectPieces)}

InitRedirect == InitWith(RedirectInputs)

\* a call checkForOutputRedirection(commandString), up to its return statement
CallCheckForOutputRedirection ==
  /\ called = "none"
  /\ result' = checkForOutputRedirection(commandString)
  /\ called' = "checkForOutputRedirection"
  /\ UNCHANGED <<currentConfig, commandString>>

\* a call extractCommands(commandString), up to its return statement
CallExtractCommands ==
  /\ called = "none"
  /\ result' = [commands |-> extractCommands(commandString)]
  /\ called' = "extractCommands"
  /\ UNCHANGED <<currentConfig, commandString>>

NextText ==
  \/ CallCheckForOutputRedirection
  \/ CallExtractCommands
  \/ CallValidateMultipleCommands
  \/ Return

SpecRedirect == InitRedirect /\ [][NextText]_vars

-----------------------------------------------------------------------------
(* Properties of the redirection guard *)

\* the quoting in force just before position i, reading s as a shell does:
\* "none", "dq" (inside double quotes) or "sq" (inside single quotes)
RECURSIVE QuoteStateBefore(_, _)
QuoteStateBefore(s, i) ==
  IF i <= 1 THEN "none"
  ELSE LET before == QuoteStateBefore(s, i - 1)
           c == s[i - 1]
       IN IF before = "none"
          THEN IF c = DoubleQuote THEN "dq" ELSE IF c = SingleQuote THEN "sq" ELSE "none"
          ELSE IF before = "dq" /\ c = DoubleQuote THEN "none"
          ELSE IF before = "sq" /\ c = SingleQuote THEN "none"
          ELSE before

\* position i lies inside a quoted span: a quote opened before it, closed after it
InsideQuotedSpan(s, i) ==
  LET state == QuoteStateBefore(s, i)
      closing == IF state = "dq" THEN DoubleQuote ELSE SingleQuote
  IN /\ state # "none"
     /\ \E j \in i..Len(s) : s[j] = closing

\* a > that a blank precedes, outside every quoted span
UnquotedRedirectionAt(s, i) ==
  /\ i > 1
  /\ s[i] = Greater
  /\ IsSpace(s[i - 1])
  /\ ~ InsideQuotedSpan(s, i)

ReturnedFromCheckForOutputRedirection == called = "checkForOutputRedirection"

C12_QuotedRedirectionIgnored ==
  (/\ ReturnedFromCheckForOutputRedirection
   /\ \A i \in 1..Len(commandString) :
         commandString[i] = Greater
         => \/ InsideQuotedSpan(commandString, i)
            \/ i > 1 /\ ~ IsSpace(commandString[i - 1]))
  => ~ result.found

-----------------------------------------------------------------------------
(* Properties of the extractor *)

\* the most pieces of a text given to extractCommands on its own
MaxExtractPieces == 4

ExtractPieces ==
  {<<"ls">>, <<Space>>, <<";">>, <<"&">>, <<DoubleQuote>>, <<SingleQuote>>,
   <<Dollar>>, <<"(">>, <<")">>, <<QuotePlaceholder(0)>>, <<SubstPlaceholder(0)>>,
   <<SingleQuote, DoubleQuote, SingleQuote>>}

\* texts with operators, quotes, substitutions and placeholder spellings
ExtractInputs == {Flatten(ps) : ps \in SeqsUpTo(ExtractPieces, MaxExtractPieces)}

InitExtract == InitWith(ExtractInputs)

SpecExtract == InitExtract /\ [][NextText]_vars

ReturnedFromExtractCommands == called = "extractCommands"

IsBlank(s) == \A i \in 1..Len(s) : IsSpace(s[i])

\* C13: extractCommands returns an empty list only for blank input (every input
\* with a character that is not whitespace yields at least one command), and
\* an empty list makes validateMultipleCommands answer 'empty command'.
C13_EmptyOnlyForBlankInput ==
  /\ (ReturnedFromExtractCommands /\ ~ IsBlank(commandString))
        => result.commands # <<>>
  /\ (ReturnedFromMultipleCommands /\ extractCommands(commandString) = <<>>)
        => ~ result.isValid /\ result.message = <<"empty command">>

\* every quote of s is closed
BalancedQuotes(s) == QuoteStateBefore(s, Len(s) + 1) = "none"

\* the texts between the operators of s that lie outside every quoted span
RECURSIVE UnquotedParts(_, _, _)
UnquotedParts(s, i, cur) ==
  IF i > Len(s) THEN <<cur>>
  ELSE IF s[i] \in OperatorChars /\ ~ InsideQuotedSpan(s, i)
       THEN <<cur>> \o UnquotedParts(s, i + 1, <<>>)
       ELSE UnquotedParts(s, i + 1, Append(cur, s[i]))

\* the commands of s as a shell reads them: split at unquoted operators,
\* trimmed, in the order of the text
CommandsBetweenOperators(s) == SelectSeq(MapTrim(UnquotedParts(s, 1, <<>>)), NonEmpty)

\* C15: extractCommands splits the text at the operators ; | & ( ) { } that
\* lie outside quotes, drops the operators, trims each part and returns the
\* parts in the order of the text; an operator inside a quoted span is not a
\* split point.
C15_SplitAtUnquotedOperators ==
  (/\ ReturnedFromExtractCommands
   /\ BalancedQuotes(commandString)
   /\ NoDollar(commandString)
   /\ NoPlaceholderText(commandString))
  => /\ Len(result.commands) = Len(CommandsBetweenOperators(commandString))
     /\ (\A i \in 1..Len(commandString) : commandString[i] \notin QuoteChars)
           => result.commands = CommandsBetweenOperators(commandString)

\* no $( in s
NoSubstitutionStart(s) ==
  \A i \in 1..(Len(s) - 1) : ~ (s[i] = Dollar /\ s[i + 1] = "(")

\* C16: for an input that is not blank and has no operator outside quotes and
\* no command substitution, extractCommands returns one command, the trimmed
\* input: every quoted span is restored character for character.
C16_QuotedSpansRestored ==
  (/\ ReturnedFromExtractCommands
   /\ ~ IsBlank(commandString)
   /\ BalancedQuotes(commandString)
   /\ NoSubstitutionStart(commandString)
   /\ NoPlaceholderText(commandString)
   /\ \A i \in 1..Len(commandString) :
         commandString[i] \in OperatorChars => InsideQuotedSpan(commandString, i))
  => result.commands = <<Trim(commandString)>>

-----------------------------------------------------------------------------
(* Properties of the orchestrator *)

\* the commands the loop of validateMultipleCommands goes through
CommandsToCheckOf(s) ==
  LET IsChecked(cmd) == ~ IsGroupingCommand(cmd)
  IN SelectSeq(extractCommands(s), IsChecked)

\* the command fails its own checks
CommandFails(cmd, cfg) ==
  \/ checkForOutputRedirection(cmd).found
  \/ ~ validateCommandWithArgs(cmd, cfg).isValid

\* the nested command of an exec-introducer is denied or not allowed
NestedCommandRejectedIn(cmd, cfg) ==
  LET nested == NestedCommandOf(cmd)
  IN /\ BaseCommandOf(cmd) \in ExecIntroducers
     /\ nested # <<>>
     /\ (IsDenied(nested, cfg) \/ ~ IsAllowed(nested, cfg))

\* the first check of a failing command that fails, the checks taken in the
\* order redirection, deny, exec-introducer, allow, subcommand policy
FailingPhaseOf(cmd, cfg) ==
  LET base == BaseCommandOf(cmd)
  IN IF checkForOutputRedirection(cmd).found THEN "redirection"
     ELSE IF IsDenied(base, cfg) THEN "deny"
     ELSE IF NestedCommandRejectedIn(cmd, cfg) THEN "exec"
     ELSE IF ~ IsAllowed(base, cfg) THEN "allow"
     ELSE "subcommand"

LocationsOfPhase(phase) ==
  CASE phase = "redirection" -> {"validateMultipleCommands:subcommandRedirectionError"}
    [] phase = "deny" -> {"validateCommandWithArgs:blacklistedBaseCommand"}
    [] phase = "exec" -> ExecLocations
    [] phase = "allow" -> {"validateCommandWithArgs:commandNotInAllowlist"}
    [] phase = "subcommand" -> {"validateCommandWithArgs:deniedSubcommand",
                                "validateCommandWithArgs:subcommandNotInAllowlist"}

\* C18: every verdict of validateMultipleCommands or validateCommandWithArgs
\* with isValid = false carries a blockReason whose location is not empty, and
\* no verdict with isValid = true carries a blockReason.
C18_BlockReasonIffInvalid ==
  (ReturnedFromMultipleCommands \/ ReturnedFromCommandWithArgs)
  => /\ ~ result.isValid => (result.blockReason.present /\ result.blockReason.location # "")
     /\ result.isValid => result.blockReason = NoBlockReason

\* git push under subCommands [status]: rejected, the location is reported
C18_Witness ==
  /\ ReturnedFromCommandWithArgs
  /\ commandString = <<"git", Space, "push">>
  /\ currentConfig = ConfigA
  /\ ~ result.isValid
  /\ result.blockReason.location = "validateCommandWithArgs:subcommandNotInAllowlist"

\* C17: validateMultipleCommands checks the extracted commands one at a time
\* in the order of the list, each by the redirection check, then the deny
\* check, then the exec-introducer check, then the allow check; the first
\* command that fails ends the loop, its verdict is the verdict of the call
\* and it is the command reported; when none fails the verdict is valid.
C17_FirstFailingCommandReported ==
  LET cmds == CommandsToCheckOf(commandString)
      failing == {k \in 1..Len(cmds) : CommandFails(cmds[k], currentConfig)}
  IN (/\ ReturnedFromMultipleCommands
      /\ ~ checkForOutputRedirection(commandString).found
      /\ cmds # <<>>)
     => IF failing = {}
        THEN result.isValid
        ELSE LET cmd == cmds[MinOf(failing)]
             IN /\ ~ result.isValid
                /\ result.command = cmd
                /\ result.blockReason.location
                     \in LocationsOfPhase(FailingPhaseOf(cmd, currentConfig))
                /\ ~ checkForOutputRedirection(cmd).found
                     => result = validateCommandWithArgs(cmd, currentConfig)

\* xargs; rm with neither allowed: xargs, the earlier command, is reported
C17_Witness ==
  /\ ReturnedFromMultipleCommands
  /\ currentConfig = ConfigB
  /\ commandString = <<"xargs", ";", "rm">>
  /\ ~ result.isValid
  /\ result.command = <<"xargs">>
  /\ result.blockReason.location = "validateCommandWithArgs:commandNotInAllowlist"

-----------------------------------------------------------------------------
(* The later revision of extractCommands: placeholders restored in a loop *)

\* the most pieces of a text given to the later revision
MaxRestorePieces == 4

\* the most iterations of the restore loop that are followed
MaxRestoreSteps == 13

RestorePieces ==
  {<<"ls">>, <<Space>>, <<";">>, <<DoubleQuote>>, <<SingleQuote>>,
   <<QuotePlaceholder(0)>>, <<QuotePlaceholder(1)>>}

\* texts without $, without backslash and without find: no substitution, no
\* escaped operator and no find -exec scan takes part in their extraction
RestoreInputs == {Flatten(ps) : ps \in SeqsUpTo(RestorePieces, MaxRestorePieces)}

InitRestore == InitWith(RestoreInputs)

\* commandString.trim().startsWith('find') && commandString.includes('-exec')
isFindExecCommand(s) ==
  /\ Trim(s) # <<>>
  /\ Trim(s)[1] = "find"
  /\ Includes(s, <<"-exec">>)

\* quotedStrings and basicCommands as the loop finds them: quoted spans
\* replaced, the text split on operators, operator parts filtered out
basicCommandsOf(s) ==
  LET dq == ReplaceQuoted(s, DoubleQuote, <<>>)
      sq == ReplaceQuoted(dq.text, SingleQuote, dq.quotedStrings)
      substitutions == MatchSubstitutions(sq.text, 1)
      processedCommand == ReplaceSubstitutions(sq.text, substitutions, 0)
      parts == MapTrim(SelectSeq(SplitOperators(processedCommand, 1, <<>>), NonEmpty))
      IsBasic(part) == ~ IsOperatorPart(part) /\ ~ IsSubstPlaceholder(part)
  IN [quotedStrings |-> sq.quotedStrings, basicCommands |-> SelectSeq(parts, IsBasic)]

\* the loop's state at the start of basicCommands.map for command number index
RestoreState(basicCommands, quotedStrings, index, restoredCommands, steps) ==
  [basicCommands |-> basicCommands,
   quotedStrings |-> quotedStrings,
   index |-> index,
   idx |-> 0,
   restoredCmd |-> IF index <= Len(basicCommands) THEN basicCommands[index] ELSE <<>>,
   restoredCommands |-> restoredCommands,
   steps |-> steps]

\* extractCommands(commandString) is entered and runs up to basicCommands.map
BeginExtractCommands ==
  /\ called = "none"
  /\ ~ isFindExecCommand(commandString)
  /\ LET b == basicCommandsOf(commandString)
     IN result' = RestoreState(b.basicCommands, b.quotedStrings, 1, <<>>, 0)
  /\ called' = "extractCommands:restore"
  /\ UNCHANGED <<currentConfig, commandString>>

Restoring ==
  /\ called = "extractCommands:restore"
  /\ result.index <= Len(result.basicCommands)

\* while (restoredCmd.includes(placeholder)): one iteration of the body
ReplacePlaceholder ==
  /\ Restoring
  /\ result.idx < Len(result.quotedStrings)
  /\ Includes(result.restoredCmd, <<QuotePlaceholder(result.idx)>>)
  /\ result.steps < MaxRestoreSteps
  /\ result' = [result EXCEPT
                  !.restoredCmd = StringReplace(@, <<QuotePlaceholder(result.idx)>>,
                                                result.quotedStrings[result.idx + 1]),
                  !.steps = @ + 1]
  /\ UNCHANGED <<currentConfig, commandString, called>>

\* the while condition is false: quotedStrings.forEach goes to the next string
NextQuotedString ==
  /\ Restoring
  /\ result.idx < Len(result.quotedStrings)
  /\ ~ Includes(result.restoredCmd, <<QuotePlaceholder(result.idx)>>)
  /\ result' = [result EXCEPT !.idx = @ + 1]
  /\ UNCHANGED <<currentConfig, commandString, called>>

\* quotedStrings.forEach is over: return restoredCmd, map takes the next command
NextCommand ==
  /\ Restoring
  /\ result.idx = Len(result.quotedStrings)
  /\ result' = RestoreState(result.basicCommands, result.quotedStrings,
                            result.index + 1,
                            Append(result.restoredCommands, result.restoredCmd),
                            result.steps)
  /\ UNCHANGED <<currentConfig, commandString, called>>

\* map is over: the fallback for an empty list, filter(Boolean), return
ReturnExtractCommands ==
  /\ called = "extractCommands:restore"
  /\ result.index > Len(result.basicCommands)
  /\ LET commands == IF Len(result.restoredCommands) = 0 /\ Trim(commandString) # <<>>
                     THEN <<Trim(commandString)>>
                     ELSE result.restoredCommands
     IN result' = [commands |-> SelectSeq(commands, NonEmpty)]
  /\ called' = "extractCommands"
  /\ UNCHANGED <<currentConfig, commandString>>

\* the caller takes the returned list; the next call may begin
TakeExtractedCommands ==
  /\ called = "extractCommands"
  /\ Return

NextRestore ==
  \/ BeginExtractCommands
  \/ ReplacePlaceholder
  \/ NextQuotedString
  \/ NextCommand
  \/ ReturnExtractCommands
  \/ TakeExtractedCommands

SpecRestore == InitRestore /\ [][NextRestore]_vars

\* the number of characters of a text: ten for a placeholder, two for ls, one
\* for every other unit
RECURSIVE TextLength(_)
TextLength(s) ==
  IF s = <<>> THEN 0
  ELSE (IF Head(s) \in {QuotePlaceholder(0), QuotePlaceholder(1)} THEN 10
        ELSE IF Head(s) = "ls" THEN 2 ELSE 1)
       + TextLength(Tail(s))

\* C14: every call of extractCommands terminates in a number of steps bounded
\* by the length of the input: whatever the input (quoted text that spells a
\* placeholder such as __QUOTE0__ included), restoring the placeholders takes
\* no more loop iterations than the input has characters.
C14_RestoreStepsBounded ==
  called = "extractCommands:restore" => result.steps <= TextLength(commandString)

-----------------------------------------------------------------------------
(* validateMultipleCommands read by read: each getConfig() call is a step *)

\* the most pieces of a text validated while the configuration is reloaded
MaxReloadPieces == 4

ReloadPieces == {<<"ls">>, <<"rm">>, <<";">>, <<Space>>}

ReloadInputs == {Flatten(ps) : ps \in SeqsUpTo(ReloadPieces, MaxReloadPieces)}

InitReload == InitWith(ReloadInputs)

\* the call in flight: config is the orchestrator's const config, reads the
\* values getConfig() returned to the validateCommandWithArgs calls so far
CallInFlight(config, commandsToCheck, index, reads) ==
  [config |-> config, commandsToCheck |-> commandsToCheck, index |-> index,
   reads |-> reads]

Returning(flight, verdict) ==
  [config |-> flight.config, commandsToCheck |-> flight.commandsToCheck,
   index |-> flight.index, reads |-> flight.reads, verdict |-> verdict]

\* validateMultipleCommands is entered: getConfig(), the whole-text redirection
\* check, extractCommands, the empty check
BeginValidateMultipleCommands ==
  /\ called = "none"
  /\ LET config == currentConfig
         redirectionError == checkForOutputRedirection(commandString)
         commandsToCheck == SelectSeq(extractCommands(commandString),
                                      LAMBDA cmd : ~ IsGroupingCommand(cmd))
         flight == CallInFlight(config, commandsToCheck, 1, <<>>)
     IN IF redirectionError.found
        THEN /\ result' = Returning(flight,
                            ValidationResult(FALSE, commandString, <<>>,
                              redirectionError.message, config,
                              BlockReason("validateMultipleCommands:redirectionError")))
             /\ called' = "validateMultipleCommands:return"
        ELSE IF Len(commandsToCheck) = 0
        THEN /\ result' = Returning(flight,
                            ValidationResult(FALSE, commandString, <<>>,
                              <<"empty command">>, config,
                              BlockReason("validateMultipleCommands:emptyCommand")))
             /\ called' = "validateMultipleCommands:return"
        ELSE /\ result' = flight
             /\ called' = "validateMultipleCommands:loop"
  /\ UNCHANGED <<currentConfig, commandString>>

\* one turn of for (const cmd of commandsToCheck): the redirection check, then
\* validateCommandWithArgs(cmd), which calls getConfig() itself
ValidateCommandInLoop ==
  /\ called = "validateMultipleCommands:loop"
  /\ result.index <= Len(result.commandsToCheck)
  /\ LET cmd == result.commandsToCheck[result.index]
         cmdRedirectionError == checkForOutputRedirection(cmd)
         res == validateCommandWithArgs(cmd, currentConfig)
         read == [result EXCEPT !.reads = Append(@, currentConfig)]
     IN IF cmdRedirectionError.found
        THEN /\ result' = Returning(result,
                            ValidationResult(FALSE, cmd, <<>>, cmdRedirectionError.message,
                              result.config,
                              BlockReason("validateMultipleCommands:subcommandRedirectionError")))
             /\ called' = "validateMultipleCommands:return"
        ELSE IF ~ res.isValid
        THEN /\ result' = Returning(read, res)
             /\ called' = "validateMultipleCommands:return"
        ELSE /\ result' = [read EXCEPT !.index = @ + 1]
             /\ called' = called
  /\ UNCHANGED <<currentConfig, commandString>>

\* the loop is over: every command was allowed
AllCommandsAllowed ==
  /\ called = "validateMultipleCommands:loop"
  /\ result.index > Len(result.commandsToCheck)
  /\ result' = Returning(result,
                 ValidationResult(TRUE, commandString, result.commandsToCheck[1],
                   <<"all commands are allowed">>, result.config, NoBlockReason))
  /\ called' = "validateMultipleCommands:return"
  /\ UNCHANGED <<currentConfig, commandString>>

\* the caller takes the verdict; the next call, or a reload, may begin
TakeVerdict ==
  /\ called = "validateMultipleCommands:return"
  /\ Return

NextReload ==
  \/ ReloadConfig
  \/ BeginValidateMultipleCommands
  \/ ValidateCommandInLoop
  \/ AllCommandsAllowed
  \/ TakeVerdict

SpecReload == InitReload /\ [][NextReload]_vars

ValidationInFlight ==
  called \in {"validateMultipleCommands:loop", "validateMultipleCommands:return"}

\* C19: a validation call completes against one configuration: every
\* getConfig() of one validateMultipleCommands call, the orchestrator's and
\* that of each validateCommandWithArgs, returns the same configuration, a
\* reload taking effect only between calls, and the verdict is the one that
\* configuration gives.
C19_SingleConfigurationPerCall ==
  ValidationInFlight
  => /\ \A k \in 1..Len(result.reads) : result.reads[k] = result.config
     /\ result.config = currentConfig
     /\ called = "validateMultipleCommands:return"
          => result.verdict = validateMultipleCommands(commandString, result.config)

\* ls;ls: two commands were validated, each after its own getConfig()
C19_Witness ==
  /\ called = "validateMultipleCommands:return"
  /\ commandString = <<"ls", ";", "ls">>
  /\ Len(result.reads) = 2
  /\ result.verdict.isValid

-----------------------------------------------------------------------------
(* The directory manager *)

\* path.sep
PathSep == "/"

\* path.resolve(...).startsWith(prefix)
StartsWith(s, prefix) ==
  /\ Len(prefix) <= Len(s)
  /\ SubSeq(s, 1, Len(prefix)) = prefix

\* the names between the separators of a path, empty names included
RECURSIVE PathSegments(_, _, _)
PathSegments(p, i, cur) ==
  IF i > Len(p) THEN <<cur>>
  ELSE IF p[i] = PathSep
       THEN <<cur>> \o PathSegments(p, i + 1, <<>>)
       ELSE PathSegments(p, i + 1, Append(cur, p[i]))

\* normalization: an empty name is skipped, .. leaves the directory reached so
\* far (the root is its own parent), any other name enters it
RECURSIVE NormalizeSegments(_, _, _)
NormalizeSegments(segments, i, reached) ==
  IF i > Len(segments) THEN reached
  ELSE LET name == segments[i]
       IN IF name = <<>> THEN NormalizeSegments(segments, i + 1, reached)
          ELSE IF name = <<"..">>
          THEN NormalizeSegments(segments, i + 1,
                 IF reached = <<>> THEN <<>> ELSE SubSeq(reached, 1, Len(reached) - 1))
          ELSE NormalizeSegments(segments, i + 1, Append(reached, name))

\* process.cwd(): /a
ProcessCwd == <<<<"a">>>>

\* the directories path.resolve(p) goes through: from the root when p starts
\* with the separator, from process.cwd() otherwise
ResolvedSegments(p) ==
  LET absolute == p # <<>> /\ p[1] = PathSep
  IN NormalizeSegments((IF absolute THEN <<>> ELSE ProcessCwd) \o PathSegments(p, 1, <<>>),
                       1, <<>>)

\* the text of an absolute path: / for the root, else /name/name...
RECURSIVE JoinSegments(_)
JoinSegments(segments) ==
  IF segments = <<>> THEN <<>>
  ELSE <<PathSep>> \o Head(segments) \o JoinSegments(Tail(segments))

PathResolve(p) ==
  LET segments == ResolvedSegments(p)
  IN IF segments = <<>> THEN <<PathSep>> ELSE JoinSegments(segments)

\* the file system: /, /a, /a/b, /ab and /b are directories, /a/a is a file
FsDirectories ==
  {<<PathSep>>, <<PathSep, "a">>, <<PathSep, "a", PathSep, "b">>,
   <<PathSep, "a", "b">>, <<PathSep, "b">>}

FsFiles == {<<PathSep, "a", PathSep, "a">>}

\* fs.statSync(p): throws for a path that does not exist
StatSync(p) ==
  IF p \in FsDirectories THEN [throws |-> FALSE, isDirectory |-> TRUE]
  ELSE IF p \in FsFiles THEN [throws |-> FALSE, isDirectory |-> FALSE]
  ELSE [throws |-> TRUE, isDirectory |-> FALSE]

\* the callback of ALLOWED_DIRECTORIES.some
IsUnderAllowedDirectory(absoluteDir, allowedDir) ==
  LET resolvedAllowedDir == PathResolve(allowedDir)
  IN \/ absoluteDir = resolvedAllowedDir
     \/ StartsWith(absoluteDir, resolvedAllowedDir \o <<PathSep>>)

isDirectoryAllowed(dir, allowedDirectories) ==
  LET absoluteDir == PathResolve(dir)
      stats == StatSync(absoluteDir)
  IN IF stats.throws \/ ~ stats.isDirectory THEN FALSE
     ELSE \E k \in 1..Len(allowedDirectories) :
             IsUnderAllowedDirectory(absoluteDir, allowedDirectories[k])

\* the most units (names' characters, separators, ..) of a path
MaxPathUnits == 4

\* the most entries of allowedDirectories
MaxAllowedDirectories == 2

PathUnits == {PathSep, "a", "b", ".."}

PathInputs == SeqsUpTo(PathUnits, MaxPathUnits)

\* the paths a configuration lists: the root, /a, /a with a trailing
\* separator, /b, and a path relative to process.cwd()
AllowedDirectoryChoices ==
  {<<PathSep>>, <<PathSep, "a">>, <<PathSep, "a", PathSep>>, <<PathSep, "b">>, <<"b">>}

\* ALLOWED_DIRECTORIES, as getAllowedDirectoriesFromConfig() gave it when the
\* module was loaded (MCP_ALLOWED_DIRECTORIES is not set)
ALLOWED_DIRECTORIES == currentConfig.allowedDirectories

InitDirectory ==
  /\ currentConfig \in {[allowedDirectories |-> dirs] :
                          dirs \in SeqsUpTo(AllowedDirectoryChoices, MaxAllowedDirectories)}
  /\ commandString \in PathInputs
  /\ called = "none"
  /\ result = NoResult

\* a call isDirectoryAllowed(dir), dir being commandString
CallIsDirectoryAllowed ==
  /\ called = "none"
  /\ result' = [allowed |-> isDirectoryAllowed(commandString, ALLOWED_DIRECTORIES)]
  /\ called' = "isDirectoryAllowed"
  /\ UNCHANGED <<currentConfig, commandString>>

\* the caller takes the answer
TakeAnswer ==
  /\ called = "isDirectoryAllowed"
  /\ Return

NextDirectory ==
  \/ CallIsDirectoryAllowed
  \/ TakeAnswer

SpecDirectory == InitDirectory /\ [][NextDirectory]_vars

-----------------------------------------------------------------------------
(* Properties of the directory manager *)

\* directory d is directory a or lies below it, at any depth
IsSameOrBelow(d, a) ==
  /\ Len(a) <= Len(d)
  /\ SubSeq(d, 1, Len(a)) = a

\* C20: isDirectoryAllowed(dir) is true exactly when the resolved path exists,
\* is a directory, and is one of the allowed directories or lies below one of
\* them at any depth; with no allowed directory nothing is allowed, and a path
\* whose name only begins like an allowed directory's is not allowed.
C20_AllowedIffWithinAllowedDirectory ==
  called = "isDirectoryAllowed"
  => (result.allowed
      <=> /\ PathResolve(commandString) \in FsDirectories
          /\ \E k \in 1..Len(ALLOWED_DIRECTORIES) :
                IsSameOrBelow(ResolvedSegments(commandString),
                              ResolvedSegments(ALLOWED_DIRECTORIES[k])))

-----------------------------------------------------------------------------
(* The command handler: handleShellCommand, with the working directory of   *)
(* the directory manager and the log of blocked commands                    *)

\* the commands command-exists finds on the machine
InstalledCommands == {<<"ls">>, <<"rm">>, <<"git">>}

\* sync of command-exists
commandExistsSync(baseCommand) == baseCommand \in InstalledCommands

\* the directory arguments of a call: /a, /b, /a/b, b (relative), .., /c (does
\* not exist), /a/a (a file) and the empty string
HandlerDirectories ==
  {<<PathSep, "a">>, <<PathSep, "b">>, <<PathSep, "a", PathSep, "b">>, <<"b">>, <<"..">>,
   <<PathSep, "c">>, <<PathSep, "a", PathSep, "a">>, <<>>}

\* the command arguments of a call: allowed, denied, not installed, an allowed
\* command followed by a denied one, a forbidden subcommand, and the empty string
HandlerCommands ==
  {<<"ls">>, <<"rm">>, <<"nope">>, <<"ls", Space, ";", Space, "rm">>,
   <<"git", Space, "push">>, <<>>}

\* the configurations: the rules of ConfigA, a list of allowed directories, and
\* blockLogPath set or not
HandlerConfigs ==
  {[allowCommands |-> ConfigA.allowCommands,
    denyCommands |-> ConfigA.denyCommands,
    defaultErrorMessage |-> ConfigA.defaultErrorMessage,
    allowedDirectories |-> dirs,
    blockLogPath |-> logPath] :
      dirs \in SeqsUpTo(AllowedDirectoryChoices, MaxAllowedDirectories),
      logPath \in {<<>>, <<PathSep, "log">>}}

\* a variant that takes every directory without asking isDirectoryAllowed
setWorkingDirectoryUnchecked(dir, allowedDirectories, current) ==
  [throws |-> FALSE, message |-> <<>>, currentWorkingDirectory |-> PathResolve(dir)]

\* a variant that assigns currentWorkingDirectory before it asks
\* isDirectoryAllowed
setWorkingDirectoryAssignFirst(dir, allowedDirectories, current) ==
  [throws |-> ~ isDirectoryAllowed(dir, allowedDirectories),
   message |-> <<"Directory not allowed: ">> \o dir,
   currentWorkingDirectory |-> PathResolve(dir)]

\* a variant that asks isDirectoryAllowed and assigns nothing
setWorkingDirectoryCheckOnly(dir, allowedDirectories, current) ==
  [throws |-> ~ isDirectoryAllowed(dir, allowedDirectories),
   message |-> <<"Directory not allowed: ">> \o dir,
   currentWorkingDirectory |-> current]

\* setWorkingDirectory(dir), currentWorkingDirectory being current: what it
\* throws and what currentWorkingDirectory is afterwards
setWorkingDirectory(dir, allowedDirectories, current) ==
  LET RECURSIVE Join(_)
      Join(dirs) == IF dirs = <<>> THEN <<>>
                    ELSE IF Len(dirs) = 1 THEN Head(dirs)
                    ELSE Head(dirs) \o <<", ">> \o Join(Tail(dirs))
  IN IF ~ isDirectoryAllowed(dir, allowedDirectories)
     THEN [throws |-> TRUE,
           message |-> <<"Directory not allowed: ">> \o dir \o <<". Must be within: ">>
                         \o Join(allowedDirectories),
           currentWorkingDirectory |-> current]
     ELSE [throws |-> FALSE, message |-> <<>>,
           currentWorkingDirectory |-> PathResolve(dir)]

\* a variant that keeps the command and drops the reason
logBlockedCommandWithoutReason(command, validationResult, cfg) ==
  [call |-> [command |-> command, reason |-> <<>>],
   lines |-> IF cfg.blockLogPath = <<>> THEN <<>>
             ELSE <<[command |-> command, reason |-> <<>>]>>]

\* logBlockedCommand(command, validationResult): the call, and the lines it
\* appends to the file of blockLogPath; without blockLogPath it returns at once
logBlockedCommand(command, validationResult, cfg) ==
  [call |-> [command |-> command, reason |-> validationResult],
   lines |-> IF cfg.blockLogPath = <<>> THEN <<>>
             ELSE <<[command |-> command, reason |-> validationResult]>>]

\* the state of the module and of the call in progress: the working directory
\* (which outlives the call), the directory argument, whether
\* setWorkingDirectory accepted it, the calls of logBlockedCommand and the lines
\* they appended, the process started and its cwd, and the text returned;
\* lastAccepted remembers the resolved directory of the last call whose
\* directory was accepted
HandlerState(wd, directory, accepted, logged, appended, started, cwd, text, lastAccepted) ==
  [currentWorkingDirectory |-> wd, directory |-> directory,
   accepted |-> accepted, logged |-> logged, appended |-> appended,
   started |-> started, cwd |-> cwd, text |-> text, lastAccepted |-> lastAccepted]

\* let currentWorkingDirectory = process.cwd(); no call has been made
InitHandler ==
  /\ currentConfig \in HandlerConfigs
  /\ commandString = <<>>
  /\ called = "none"
  /\ result = HandlerState(PathResolve(<<>>), <<>>, FALSE, <<>>, <<>>, FALSE, <<>>, <<>>, Null)

\* handleShellCommand(command, directory) up to its first await:
\* setWorkingDirectory, which may throw into the catch block and so return the
\* error text, then the base command and commandExistsSync
BeginHandleShellCommand ==
  /\ called = "none"
  /\ \E command \in HandlerCommands, directory \in HandlerDirectories :
       LET set == setWorkingDirectory(directory, ALLOWED_DIRECTORIES,
                                      result.currentWorkingDirectory)
       IN /\ commandString' = command
          /\ IF set.throws
             THEN /\ result' = HandlerState(set.currentWorkingDirectory, directory, FALSE,
                                 <<>>, <<>>, FALSE, <<>>, <<"Error: ">> \o set.message,
                                 result.lastAccepted)
                  /\ called' = "handleShellCommand"
             ELSE /\ result' = HandlerState(set.currentWorkingDirectory, directory, TRUE,
                                 <<>>, <<>>, FALSE, <<>>, <<>>,
                                 Some(set.currentWorkingDirectory))
                  /\ called' = "handleShellCommand:commandExistsSync"
  /\ UNCHANGED currentConfig

\* from the first await to the second: the command that does not exist and
\* the command that fails validation are logged and thrown into the catch block;
\* any other command is started by execa in getWorkingDirectory()
CheckAndStartCommand ==
  /\ called = "handleShellCommand:commandExistsSync"
  /\ \E validationResult \in {validateMultipleCommands(commandString, currentConfig)} :
     LET command == commandString
         baseCommand == NonBlankRun(Trim(command), 1)
         isCommandExists == commandExistsSync(baseCommand)
         notFound == logBlockedCommand(command, <<"command not found">>, currentConfig)
         blocked == logBlockedCommand(command, validationResult, currentConfig)
     IN IF ~ isCommandExists
        THEN /\ result' = [result EXCEPT
                  !.logged = Append(@, notFound.call),
                  !.appended = @ \o notFound.lines,
                  !.text = <<"Error: ", "Command not found: ">> \o baseCommand]
             /\ called' = "handleShellCommand"
        ELSE IF ~ validationResult.isValid
        THEN /\ result' = [result EXCEPT
                  !.logged = Append(@, blocked.call),
                  !.appended = @ \o blocked.lines,
                  !.text = <<"Error: ">> \o validationResult.message
                             \o <<"\nBlocked command: ">> \o command]
             /\ called' = "handleShellCommand"
        ELSE /\ result' = [result EXCEPT !.started = TRUE,
                                         !.cwd = result.currentWorkingDirectory]
             /\ called' = "handleShellCommand:execa"
  /\ UNCHANGED <<currentConfig, commandString>>

\* the process ends: its output is returned, or execa rejects and the catch
\* block returns the error text
ProcessEnds ==
  /\ called = "handleShellCommand:execa"
  /\ \E failed \in BOOLEAN :
       result' = [result EXCEPT
                    !.text = IF failed THEN <<"Error: ", "Command failed">> ELSE <<"result.all">>]
  /\ called' = "handleShellCommand"
  /\ UNCHANGED <<currentConfig, commandString>>

\* the caller takes the returned content; currentWorkingDirectory stays
TakeHandlerResult ==
  /\ called = "handleShellCommand"
  /\ called' = "none"
  /\ result' = HandlerState(result.currentWorkingDirectory, <<>>, FALSE, <<>>, <<>>,
                            FALSE, <<>>, <<>>, result.lastAccepted)
  /\ UNCHANGED <<currentConfig, commandString>>

NextHandler ==
  \/ BeginHandleShellCommand
  \/ CheckAndStartCommand
  \/ ProcessEnds
  \/ TakeHandlerResult

SpecHandler == InitHandler /\ [][NextHandler]_vars

-----------------------------------------------------------------------------
(* Properties of the command handler *)

HandlerCallInProgress == called # "none"

HandlerReturned == called = "handleShellCommand"

\* String(error) of an Error: its message after the word Error
IsErrorText(text) == text # <<>> /\ text[1] = "Error: "

\* C21: the shell process is started only when setWorkingDirectory accepted the
\* directory and validateMultipleCommands returned isValid = true; a call whose
\* directory is not allowed, whose base command does not exist or whose verdict
\* is invalid starts no process and returns an error text.
C21_ProcessOnlyAfterAllChecks ==
  LET directoryAllowed == isDirectoryAllowed(result.directory, ALLOWED_DIRECTORIES)
      commandExists == commandExistsSync(NonBlankRun(Trim(commandString), 1))
      verdictValid == validateMultipleCommands(commandString, currentConfig).isValid
  IN /\ HandlerCallInProgress /\ result.started
          => directoryAllowed /\ result.accepted /\ commandExists /\ verdictValid
     /\ HandlerReturned /\ ~ (directoryAllowed /\ commandExists /\ verdictValid)
          => ~ result.started /\ IsErrorText(result.text)

\* a call with an allowed relative directory and an allowed command has
\* started its process
C21_Witness ==
  /\ HandlerReturned
  /\ result.started
  /\ commandString = <<"ls">>
  /\ result.cwd = <<PathSep, "a", PathSep, "b">>

\* getWorkingDirectory()
getWorkingDirectory == result.currentWorkingDirectory

\* the step in which a call makes its setWorkingDirectory(directory)
SetsWorkingDirectory == called = "none" /\ called' # "none"

\* C27: setWorkingDirectory(dir) with a directory that is not allowed throws an
\* error starting with 'Directory not allowed' and leaves the current working
\* directory as it was; with an allowed directory it makes the resolved absolute
\* path the current working directory.  So getWorkingDirectory() is the initial
\* process directory until a call is accepted, and changes in no other step.
C27_SetWorkingDirectory ==
  /\ getWorkingDirectory = PathResolve(<<>>)
  /\ [][/\ SetsWorkingDirectory
             => IF isDirectoryAllowed(result'.directory, ALLOWED_DIRECTORIES)
                THEN /\ result'.accepted
                     /\ getWorkingDirectory' = PathResolve(result'.directory)
                ELSE /\ ~ result'.accepted
                     /\ Len(result'.text) >= 2
                     /\ result'.text[1] = "Error: "
                     /\ result'.text[2] = "Directory not allowed: "
                     /\ getWorkingDirectory' = getWorkingDirectory
        /\ ~ SetsWorkingDirectory => getWorkingDirectory' = getWorkingDirectory]_vars

\* /b was accepted, and then /c, which does not exist, was refused
C27_Witness ==
  /\ HandlerReturned
  /\ ~ result.accepted
  /\ result.directory = <<PathSep, "c">>
  /\ result.text[2] = "Directory not allowed: "
  /\ getWorkingDirectory = <<PathSep, "b">>

\* C28: a call that does not execute its command because the command was not
\* found or failed validation has called logBlockedCommand exactly once when it
\* returns its error text, with the original command text and, for a
\* validation failure, the verdict with its location tag; a call whose command
\* is executed has logged nothing.
C28_BlockedCommandLoggedOnce ==
  LET commandExists == commandExistsSync(NonBlankRun(Trim(commandString), 1))
      verdict == validateMultipleCommands(commandString, currentConfig)
  IN /\ HandlerReturned /\ result.accepted /\ ~ commandExists
          => result.logged = <<[command |-> commandString,
                                reason |-> <<"command not found">>]>>
     /\ HandlerReturned /\ result.accepted /\ commandExists /\ ~ verdict.isValid
          => /\ result.logged = <<[command |-> commandString, reason |-> verdict]>>
             /\ verdict.blockReason.present
             /\ verdict.blockReason.location # ""
     /\ HandlerCallInProgress /\ result.started => result.logged = <<>>
     /\ HandlerCallInProgress /\ ~ HandlerReturned => result.logged = <<>>

\* git push, which the rule of git does not list, was refused and logged with
\* the location of the refusal
C28_Witness ==
  /\ HandlerReturned
  /\ commandString = <<"git", Space, "push">>
  /\ Len(result.logged) = 1
  /\ result.logged[1].reason.blockReason.location
       = "validateCommandWithArgs:subcommandNotInAllowlist"
  /\ ~ result.started

\* C30: handleShellCommand sets the working directory before it checks or
\* validates the command.  A call with an allowed directory whose command is
\* then rejected (not found, or denied by validation) executes nothing and
\* leaves getWorkingDirectory() equal to the resolved directory of that call; a
\* call with a directory that is not allowed changes nothing and returns
\* without reaching the checks of the command or the log.
C30_DirectorySetBeforeValidation ==
  /\ [](HandlerReturned /\ result.accepted /\ ~ result.started
          => /\ Len(result.logged) = 1
             /\ IsErrorText(result.text)
             /\ getWorkingDirectory = PathResolve(result.directory))
  /\ [][SetsWorkingDirectory /\ ~ result'.accepted
          => /\ getWorkingDirectory' = getWorkingDirectory
             /\ called' = "handleShellCommand"
             /\ result'.logged = <<>>
             /\ result'.appended = <<>>
             /\ ~ result'.started]_vars

\* rm was refused in /b, which had been accepted, and /b stays the working
\* directory
C30_Witness ==
  /\ HandlerReturned
  /\ commandString = <<"rm">>
  /\ result.accepted
  /\ ~ result.started
  /\ result.directory = <<PathSep, "b">>
  /\ getWorkingDirectory = <<PathSep, "b">>

-----------------------------------------------------------------------------
(* The command handler of the revision whose directory argument is optional *)

\* validateCommandWithArgs of that revision, which answers true or false: the
\* allow rule of the base command, and its subCommands when there is an argument
validateCommandWithArgsBoolean(command, cfg) ==
  LET parts == SplitWhitespace(Trim(command))
      baseCommand == parts[1]
      matchedCommand == findCommandInAllowlist(baseCommand, cfg.allowCommands)
      rule == cfg.allowCommands[matchedCommand.index]
  IN IF ~ matchedCommand.found THEN FALSE
     ELSE IF rule.isString THEN TRUE
     ELSE IF rule.hasSubCommands /\ Len(parts) > 1
     THEN SeqIncludes(rule.subCommands, parts[2])
     ELSE TRUE

\* findDenyCommandInBlacklist(command): the deny rule named by the first word
\* of the command that names one, else the first pattern rule that matches the
\* command, else null
findDenyCommandInBlacklist(command, cfg) ==
  LET commands == SplitWhitespace(Trim(command))
      named == {k \in 1..Len(commands) : FindDenyCommand(commands[k], cfg.denyCommands).found}
      patterns == {k \in 1..Len(cfg.denyCommands) :
                     LET cmdName == getDenyCommandName(cfg.denyCommands[k])
                     IN /\ isRegexPattern(cmdName)
                        /\ RegexTest(getRegexFromPattern(cmdName), command)}
  IN IF named # {}
     THEN Some(cfg.denyCommands[FindDenyCommand(commands[MinOf(named)],
                                                cfg.denyCommands).index])
     ELSE IF patterns # {} THEN Some(cfg.denyCommands[MinOf(patterns)])
     ELSE Null

\* handleShellCommand(command, directory?) up to its first await:
\* setWorkingDirectory only if (directory), that is when the argument is given
\* and is not the empty string
BeginWithOptionalDirectory ==
  /\ called = "none"
  /\ \E command \in HandlerCommands,
        directory \in {Null} \cup {Some(d) : d \in HandlerDirectories} :
       LET given == ~ directory.isNull /\ directory.value # <<>>
           set == setWorkingDirectory(directory.value, ALLOWED_DIRECTORIES,
                                      result.currentWorkingDirectory)
       IN /\ commandString' = command
          /\ IF given /\ set.throws
             THEN /\ result' = HandlerState(set.currentWorkingDirectory, directory.value,
                                 FALSE, <<>>, <<>>, FALSE, <<>>,
                                 <<"Error: ">> \o set.message, result.lastAccepted)
                  /\ called' = "handleShellCommand"
             ELSE /\ result' =
                       IF given
                       THEN HandlerState(set.currentWorkingDirectory, directory.value, TRUE,
                              <<>>, <<>>, FALSE, <<>>, <<>>,
                              Some(set.currentWorkingDirectory))
                       ELSE HandlerState(result.currentWorkingDirectory, <<>>, FALSE,
                              <<>>, <<>>, FALSE, <<>>, <<>>, result.lastAccepted)
                  /\ called' = "handleShellCommand:commandExistsSync"
  /\ UNCHANGED currentConfig

\* from the first await to the second: the command that does not exist, names
\* a deny rule or is not allowed is thrown into the catch block; any other
\* command is started by execa in getWorkingDirectory()
CheckListsAndStartCommand ==
  /\ called = "handleShellCommand:commandExistsSync"
  /\ LET command == commandString
         baseCommand == SplitWhitespace(Trim(command))[1]
         denyCommand == findDenyCommandInBlacklist(command, currentConfig)
         rejected(message) ==
           /\ result' = [result EXCEPT !.text = <<"Error: ">> \o message]
           /\ called' = "handleShellCommand"
     IN IF ~ commandExistsSync(baseCommand)
        THEN rejected(<<"Command not found: ">> \o baseCommand)
        ELSE IF ~ denyCommand.isNull
        THEN rejected(getDenyCommandMessage(denyCommand.value, currentConfig))
        ELSE IF ~ validateCommandWithArgsBoolean(command, currentConfig)
        THEN rejected(<<"Command not allowed: ">> \o baseCommand)
        ELSE /\ result' = [result EXCEPT !.started = TRUE,
                                         !.cwd = result.currentWorkingDirectory]
             /\ called' = "handleShellCommand:execa"
  /\ UNCHANGED <<currentConfig, commandString>>

\* the process ends: its output is returned with the note executed in
\* getWorkingDirectory(), or execa rejects and the catch block returns the
\* error text
ProcessEndsWithNote ==
  /\ called = "handleShellCommand:execa"
  /\ \E failed \in BOOLEAN :
       result' = [result EXCEPT
                    !.text = IF failed THEN <<"Error: ", "Command failed">>
                             ELSE <<"result.all", "executed in ">>
                                    \o result.currentWorkingDirectory]
  /\ called' = "handleShellCommand"
  /\ UNCHANGED <<currentConfig, commandString>>

NextOptionalDirectory ==
  \/ BeginWithOptionalDirectory
  \/ CheckListsAndStartCommand
  \/ ProcessEndsWithNote
  \/ TakeHandlerResult

SpecOptionalDirectory == InitHandler /\ [][NextOptionalDirectory]_vars

\* C22: the working directory in which a command is executed is the resolved
\* directory of the most recent call whose directory was accepted, and it is
\* inside an allowed directory.
C22_ExecutedInLastAcceptedDirectory ==
  HandlerCallInProgress /\ result.started
    => /\ ~ result.lastAccepted.isNull => result.cwd = result.lastAccepted.value
       /\ \E k \in 1..Len(ALLOWED_DIRECTORIES) :
             IsSameOrBelow(ResolvedSegments(result.cwd),
                           ResolvedSegments(ALLOWED_DIRECTORIES[k]))

-----------------------------------------------------------------------------
(* The configuration loader: loadConfig *)

\* DEFAULT_CONFIG, with the rules of ConfigB standing for its lists
DEFAULT_CONFIG ==
  [mergeMode |-> "overwrite",
   allowedDirectories |-> <<>>,
   allowCommands |-> ConfigB.allowCommands,
   denyCommands |-> ConfigB.denyCommands,
   defaultErrorMessage |-> DefaultErrorMessage]

\* x || y for a property x that may be missing; an array, even an empty one, a
\* mode and a text that is not empty are never falsy
OrElse(x, y) == IF x.isNull THEN y ELSE x.value

mergeWithDefaultConfig(config) ==
  [allowedDirectories |-> DEFAULT_CONFIG.allowedDirectories
                            \o OrElse(config.allowedDirectories, <<>>),
   allowCommands |-> DEFAULT_CONFIG.allowCommands \o OrElse(config.allowCommands, <<>>),
   denyCommands |-> DEFAULT_CONFIG.denyCommands \o OrElse(config.denyCommands, <<>>),
   defaultErrorMessage |-> OrElse(config.defaultErrorMessage,
                                  DEFAULT_CONFIG.defaultErrorMessage),
   mergeMode |-> OrElse(config.mergeMode, DEFAULT_CONFIG.mergeMode)]

overwriteDefaultConfig(config) ==
  [allowedDirectories |-> OrElse(config.allowedDirectories,
                                 DEFAULT_CONFIG.allowedDirectories),
   allowCommands |-> OrElse(config.allowCommands, DEFAULT_CONFIG.allowCommands),
   denyCommands |-> OrElse(config.denyCommands, DEFAULT_CONFIG.denyCommands),
   defaultErrorMessage |-> OrElse(config.defaultErrorMessage,
                                  DEFAULT_CONFIG.defaultErrorMessage),
   mergeMode |-> OrElse(config.mergeMode, DEFAULT_CONFIG.mergeMode)]

\* loadConfig(), file being the parsed content of the file of MCP_CONFIG_PATH,
\* or null when there is no such file or it cannot be parsed
loadConfig(file) ==
  IF file.isNull THEN DEFAULT_CONFIG
  ELSE LET config == file.value
           mergeMode == OrElse(config.mergeMode, DEFAULT_CONFIG.mergeMode)
       IN IF mergeMode = "overwrite"
          THEN overwriteDefaultConfig(config)
          ELSE mergeWithDefaultConfig(config)

\* the custom files: each property is missing or given; a list is empty or has
\* one custom entry
CustomConfigs ==
  [allowedDirectories : {Null, Some(<<<<PathSep, "b">>>>)},
   allowCommands : {Null, Some(<<>>), Some(<<AllowString(<<"custom">>)>>)},
   denyCommands : {Null, Some(<<>>), Some(<<DenyString(<<"custom">>)>>)},
   defaultErrorMessage : {Null, Some(<<"custom message">>)},
   mergeMode : {Null, Some("merge"), Some("overwrite")}]

\* let currentConfig = loadConfig(), before any configuration file is there
InitLoad ==
  /\ currentConfig = loadConfig(Null)
  /\ commandString = <<>>
  /\ called = "none"
  /\ result = NoResult

\* reloadConfig(): currentConfig = loadConfig(); result keeps the file read
CallReloadConfig ==
  /\ called = "none"
  /\ \E file \in {Null} \cup {Some(config) : config \in CustomConfigs} :
       /\ currentConfig' = loadConfig(file)
       /\ result' = file
  /\ called' = "reloadConfig"
  /\ UNCHANGED commandString

\* the caller takes the configuration, which stays the current one
TakeConfig ==
  /\ called = "reloadConfig"
  /\ called' = "none"
  /\ result' = NoResult
  /\ UNCHANGED <<currentConfig, commandString>>

NextLoad ==
  \/ CallReloadConfig
  \/ TakeConfig

SpecLoad == InitLoad /\ [][NextLoad]_vars

\* C23: when the custom file does not specify mergeMode, loadConfig merges:
\* allowCommands and denyCommands are the default entries followed by the
\* custom entries.  Only with mergeMode overwrite do the custom lists replace
\* the default ones, a list missing from the file falling back to its default.
C23_MergeUnlessOverwrite ==
  called = "reloadConfig" /\ ~ result.isNull
    => LET config == result.value
           customAllow == IF config.allowCommands.isNull THEN <<>>
                          ELSE config.allowCommands.value
           customDeny == IF config.denyCommands.isNull THEN <<>>
                         ELSE config.denyCommands.value
       IN IF ~ config.mergeMode.isNull /\ config.mergeMode.value = "overwrite"
          THEN /\ currentConfig.allowCommands
                    = IF config.allowCommands.isNull THEN DEFAULT_CONFIG.allowCommands
                      ELSE customAllow
               /\ currentConfig.denyCommands
                    = IF config.denyCommands.isNull THEN DEFAULT_CONFIG.denyCommands
                      ELSE customDeny
          ELSE /\ currentConfig.allowCommands = DEFAULT_CONFIG.allowCommands \o customAllow
               /\ currentConfig.denyCommands = DEFAULT_CONFIG.denyCommands \o customDeny

-----------------------------------------------------------------------------
(* The extractor on nested substitutions, and the scan of find -exec texts *)

\* the most pieces of a text with nested substitutions
MaxNestedPieces == 6

\* the most pieces of a text with find and -exec
MaxFindPieces == 5

\* texts with substitutions inside substitutions (at most nested pieces), and
\* texts made of find, a letter, -exec after a blank, an escaped semicolon, a
\* semicolon, && and a blank (at most pieces of them)
ScanInputs(nested, pieces) ==
  {Flatten(ps) : ps \in SeqsUpTo({<<"ls", Space>>, <<"rm">>, <<Dollar, "(">>, <<")">>},
                                 nested)}
  \cup
  {Flatten(ps) : ps \in SeqsUpTo({<<"find">>, <<"x">>, <<Space, "-exec">>, <<"\\", ";">>,
                                  <<";">>, <<"&", "&">>, <<Space>>},
                                 pieces)}

\* the number of extractCommands calls on the stack when the recursion on
\* substitutions.forEach is deepest, the call on s included
RECURSIVE extractCommandsDepth(_)
extractCommandsDepth(s) ==
  LET dq == ReplaceQuoted(s, DoubleQuote, <<>>)
      sq == ReplaceQuoted(dq.text, SingleQuote, dq.quotedStrings)
      substitutions == MatchSubstitutions(sq.text, 1)
      innerCommand(k) == Trim(SubSeq(substitutions[k], 3, Len(substitutions[k]) - 1))
      depths == {extractCommandsDepth(innerCommand(k)) :
                   k \in {j \in 1..Len(substitutions) : innerCommand(j) # <<>>}}
  IN IF depths = {} THEN 1
     ELSE 1 + CHOOSE d \in depths : \A e \in depths : e <= d

\* processFindExecCommand(commandString): the character scan.  A semicolon is
\* escaped when the character before it is a backslash and at least two
\* characters precede it
processFindExecCommand(text) ==
  LET RECURSIVE Scan(_, _, _)
      Scan(i, currentPart, parts) ==
        LET push == IF Trim(currentPart) # <<>> THEN Append(parts, Trim(currentPart))
                    ELSE parts
        IN IF i > Len(text) THEN push
           ELSE LET currentChar == text[i]
                    nextChar == IF i < Len(text) THEN text[i + 1] ELSE ""
                    escaped == i >= 3 /\ text[i - 1] = "\\"
                IN IF currentChar = ";" /\ escaped
                   THEN Scan(i + 1, Append(currentPart, currentChar), parts)
                   ELSE IF currentChar = "&" /\ nextChar = "&"
                   THEN Scan(i + 2, <<>>, push)
                   ELSE IF currentChar = ";"
                   THEN Scan(i + 1, <<>>, push)
                   ELSE Scan(i + 1, Append(currentPart, currentChar), parts)
      parts == Scan(1, <<>>, <<>>)
  IN IF Len(parts) = 0 /\ Trim(text) # <<>> THEN <<Trim(text)>>
     ELSE parts

\* extractCommands(commandString) of the later revision up to the end of its
\* find -exec branch: a find -exec text is scanned and the parts are returned;
\* any other text goes on to the quoted spans
BeginExtractCommandsWithScan ==
  /\ called = "none"
  /\ IF isFindExecCommand(commandString)
     THEN /\ result' = [usedScan |-> TRUE,
                        commands |-> processFindExecCommand(commandString)]
          /\ called' = "extractCommands"
     ELSE /\ result' = [usedScan |-> FALSE, commands |-> <<>>]
          /\ called' = "extractCommands:quotedStrings"
  /\ UNCHANGED <<currentConfig, commandString>>

NextScan ==
  \/ CallExtractCommands
  \/ BeginExtractCommandsWithScan
  \/ Return

\* extractCommands reads no configuration; the one loaded is the one after
\* DEFAULT_CONFIG
InitScan ==
  /\ currentConfig = ConfigB
  /\ commandString \in ScanInputs(MaxNestedPieces, MaxFindPieces)
  /\ called = "none"
  /\ result = NoResult

SpecScan == InitScan /\ [][NextScan]_vars

-----------------------------------------------------------------------------
(* Properties of the extractor on substitutions *)

\* every parenthesis of the text opens or closes a substitution that is not
\* empty, and the substitutions are closed in the order they nest
WellNested(s) ==
  LET RECURSIVE Open(_, _)
      Open(i, open) ==
        IF i > Len(s) THEN open = 0
        ELSE IF s[i] = "("
             THEN i > 1 /\ s[i - 1] = Dollar /\ i < Len(s) /\ s[i + 1] # ")"
                  /\ Open(i + 1, open + 1)
        ELSE IF s[i] = ")" THEN open > 0 /\ Open(i + 1, open - 1)
        ELSE Open(i + 1, open)
  IN Open(1, 0)

\* the commands of a text without quotes, depth first: for each substitution
\* of the text, from left to right, the commands of its inner text, and then
\* the commands of the text itself with each substitution replaced by its
\* placeholder
RECURSIVE DepthFirstCommands(_)
DepthFirstCommands(s) ==
  LET substitutions == MatchSubstitutionsBalanced(s, 1)
      RECURSIVE Inner(_)
      Inner(k) ==
        IF k > Len(substitutions) THEN <<>>
        ELSE LET innerCommand == Trim(SubSeq(substitutions[k], 3,
                                             Len(substitutions[k]) - 1))
             IN (IF innerCommand # <<>> THEN DepthFirstCommands(innerCommand) ELSE <<>>)
                  \o Inner(k + 1)
      processedCommand == ReplaceSubstitutions(s, substitutions, 0)
      parts == MapTrim(SelectSeq(SplitOperators(processedCommand, 1, <<>>), NonEmpty))
      IsBasic(part) == ~ IsOperatorPart(part) /\ ~ IsSubstPlaceholder(part)
  IN SelectSeq(Inner(1) \o SelectSeq(parts, IsBasic), NonEmpty)

\* C24: for a text with $(...) substitutions extractCommands gives the commands
\* of each substitution's inner text before any command of the outer text, and
\* the outer command with the substitution replaced by a placeholder (ls $(rm)
\* gives rm and ls __SUBST0__); nested substitutions are resolved depth first,
\* the commands of an inner substitution before those of the one that holds it.
C24_SubstitutionsDepthFirst ==
  ReturnedFromExtractCommands /\ "usedScan" \notin DOMAIN result
    => /\ commandString = <<"ls", Space, Dollar, "(", "rm", ")">>
            => result.commands = <<<<"rm">>, <<"ls", Space, SubstPlaceholder(0)>>>>
       /\ WellNested(commandString)
            => result.commands = DepthFirstCommands(commandString)

\* C25: the recursion of extractCommands on command substitutions is bounded:
\* for no text do the nested extractCommands calls exceed 32.  A substitution
\* ends at the first closing parenthesis, so its inner text has none and the
\* call on it finds no substitution: the calls never nest deeper than two.
C25_RecursionDepthBounded ==
  ReturnedFromExtractCommands
    => /\ extractCommandsDepth(commandString) <= 2
       /\ extractCommandsDepth(commandString) <= 32

\* a substitution inside a substitution was extracted with two nested calls
C25_Witness ==
  /\ ReturnedFromExtractCommands
  /\ commandString = <<Dollar, "(", "rm", Dollar, "(", "ls", Space, ")", ")">>
  /\ extractCommandsDepth(commandString) = 2

-----------------------------------------------------------------------------
(* Properties of the find -exec scan *)

\* a part returned by the scan: not empty, trimmed, every semicolon in it is
\* escaped and no && is left in it
IsScannedPart(part) ==
  /\ part # <<>>
  /\ Trim(part) = part
  /\ \A i \in 1..Len(part) : part[i] = ";" => i > 1 /\ part[i - 1] = "\\"
  /\ \A i \in 1..(Len(part) - 1) : ~ (part[i] = "&" /\ part[i + 1] = "&")

\* C26: the character scan is used when, and only when, the leading token of
\* the text is find and the text contains -exec; in the scan an escaped
\* semicolon stays in the current command, && and an unescaped ; separate
\* commands, every other character is copied, and each part returned is not
\* empty and trimmed (find -exec\;&&x gives find -exec\; and x).
C26_ScanOnlyForFindExec ==
  "usedScan" \in DOMAIN result
    => /\ result.usedScan
            <=> /\ Trim(commandString) # <<>>
                /\ BaseCommandOf(commandString) = <<"find">>
                /\ Includes(commandString, <<"-exec">>)
       /\ result.usedScan
            => \A k \in 1..Len(result.commands) : IsScannedPart(result.commands[k])
       /\ commandString = <<"find", Space, "-exec", "\\", ";", "&", "&", "x">>
            => result.commands = <<<<"find", Space, "-exec", "\\", ";">>, <<"x">>>>

-----------------------------------------------------------------------------
(* Properties of the check of a nested command *)

\* the command cut after the nested command of its exec-introducer
CutAfterNested(s) ==
  LET tokens == TokensOf(s)
      opts == {k \in 2..(Len(tokens) - 1) : tokens[k] \in {<<"-exec">>, <<"-execdir">>}}
      last == IF tokens[1] = <<"xargs">> THEN 2 ELSE MinOf(opts) + 1
  IN JoinTokens(SubSeq(tokens, 1, last))

\* C29: the command nested in an exec-introducer is checked by name only.  For
\* xargs or find (not denied itself) with a nested command, the exec check
\* rejects exactly when a deny rule names the nested token or no allow rule
\* names it; the subCommands and denySubCommands of the allow rule that names it
\* are never applied and only that one token is inspected, so the verdict is
\* the verdict of the command cut after the nested token, whatever follows it.
C29_NestedCommandByNameOnly ==
  LET base == BaseCommandOf(commandString)
      alone == validateCommandWithArgs(CutAfterNested(commandString), currentConfig)
  IN (/\ ReturnedFromCommandWithArgs
      /\ base \in ExecIntroducers
      /\ ~ IsDenied(base, currentConfig)
      /\ NestedCommandOf(commandString) # <<>>)
     => /\ (result.blockReason.present /\ result.blockReason.location \in ExecLocations)
             <=> NestedCommandRejected
        /\ result.isValid = alone.isValid
        /\ result.message = alone.message
        /\ result.blockReason = alone.blockReason

\* xargs git push passes where git is allowed with the one subcommand status,
\* although git push on its own is rejected
C29_Witness ==
  /\ ReturnedFromCommandWithArgs
  /\ currentConfig = ConfigA
  /\ TokensOf(commandString) = <<<<"xargs">>, <<"git">>, <<"push">>>>
  /\ result.isValid
  /\ ~ validateCommandWithArgs(<<"git", Space, "push">>, ConfigA).isValid

====
